---- MODULE Spec2Model ----
(***************************************************************************)
(* Model of the MCP App host side of botdojo-chat-sdk:                     *)
(*   - the App Bridge (hooks/useMcpHostBridge), one iframe's JSON-RPC      *)
(*     lifecycle, as rendered by the McpAppHost component;                 *)
(*   - the tool-notification registry of BotDojoChatProvider;              *)
(*   - the app registry of McpAppHostContext (sendToApp).                  *)
(*                                                                         *)
(* React state is modelled as the value the queued updates fold to         *)
(* (iframeState, initFailed, iframeSrc, ...); what the last commit         *)
(* rendered is kept beside it (iframeStateRef, iframeSrcR, hasWindow).     *)
(* A handler run by a message event or a timer only queues updates; the    *)
(* commit and the passive effects it triggers are the action Render.       *)
(* Timers carry no durations: an armed timer may fire at any moment.       *)
(***************************************************************************)
EXTENDS Integers, Sequences, FiniteSets, TLC

\* ------------------------------------------------------------------ bounds
MaxReq == 3        \* outbound request ids a bridge may create in one run
MaxRetryReq == 7   \* the same, for the bridge whose retry sequences are followed
MaxQueue == 2      \* length of the pending-notification queue
MaxInId == 1       \* ids the app uses for its own requests
MaxResolve == 2    \* resolver calls of sandbox resources in flight
MaxNotif == 2      \* notifications sent through the provider registry
MaxSenders == 2    \* senders registered with the provider registry
MaxSend == 2       \* sendToApp requests of the app registry
MaxCalls == 1      \* tool_call messages the provider handles
MaxPartials == 1   \* notifications the tools send while they execute
MaxBridges == 2    \* PostMessageBridge objects registerMcpApp creates
MaxEvents == 2     \* events forwardEventToApp is called with
MaxUpdates == 3    \* step updates merged into the chat state
MaxUri == 4        \* characters of a resource uri
MaxTemplate == 3   \* characters and placeholders of a uri template
MaxMessages == 6   \* messages the embedded chat streams to HeadlessChat

\* ------------------------------------------------------- program constants
MaxInitializeAttempts == 5

\* ------------------------------------------------------------------ values
NoId == 0
NoUrl == "none"
Urls == {"u1", "u2"}
Undefined == "undefined"

IframeStates == {"idle", "loading", "initializing", "ready"}

\* Abstract JavaScript values of the tool arguments / result / params.
\* "obj" is a non-empty object, "emptyobj" is {}, "json" a string holding the
\* JSON text of a non-empty object, "text" a string that is not JSON.
JsValues == {Undefined, "null", "emptystr", "emptyobj", "obj", "json", "text"}

\* "jsonempty" is a string holding the JSON text {}.
parseMaybeJson(value) ==
    IF value \in {Undefined, "null", "emptystr"} THEN Undefined
    ELSE IF value \in {"obj", "emptyobj"} THEN value
    ELSE IF value = "json" THEN "obj"
    ELSE IF value = "jsonempty" THEN "emptyobj"
    ELSE value

\* Objects built from those: "progress" is a non-empty object whose kind is
\* 'botdojo-tool-progress'; Spread(v, keys) is the object {...v, keys}.
ProgressKind == "progress"
Spread(v, keys) == IF v \in {"obj", ProgressKind} THEN v \o "+" \o keys ELSE keys
NonEmptyObjects ==
    {"obj", ProgressKind} \cup {Spread(v, k) : v \in {"obj", ProgressKind, Undefined},
                                              k \in {"_botdojoProgress", "stepId"}}

IsNonEmptyObject(v) == v \in NonEmptyObjects

Truthy(v) == v \notin {Undefined, "null", "emptystr"}

\* ---------------------------------------------------------------- messages
ToolInput == "ui/notifications/tool-input"
ToolInputPartial == "ui/notifications/tool-input-partial"
ToolResult == "ui/notifications/tool-result"
ToolMethods == {ToolInput, ToolInputPartial, ToolResult}

Request(id, method) == [t |-> "request", id |-> id, method |-> method, body |-> [protocolVersion |-> "mcp-apps/0.1"]]
Notification(method, body) == [t |-> "notification", id |-> NoId, method |-> method, body |-> body]
Result(id, body) == [t |-> "result", id |-> id, method |-> "-", body |-> body]
Error(id, body) == [t |-> "error", id |-> id, method |-> "-", body |-> body]

\* Params of a tool notification: the fields validateToolParams reads.
ToolParams ==
    { [arguments |-> "obj", result |-> Undefined],
      [arguments |-> "emptyobj", result |-> Undefined],
      [arguments |-> Undefined, result |-> "obj"],
      [arguments |-> Undefined, result |-> "emptystr"],
      [arguments |-> "text", result |-> Undefined] }

\* Faulty variant of validateToolParams: every payload passes.
validateAnything(params, kind) == TRUE

validateToolParams(params, kind) ==
    IF kind = "result"
    THEN params.result # Undefined /\ params.result # "emptystr"
    ELSE IsNonEmptyObject(params.arguments)

NotificationKind(method) ==
    IF method = ToolResult THEN "result"
    ELSE IF method = ToolInputPartial THEN "partial"
    ELSE "input"

VARIABLES
    bridge,     \* the state of one useMcpHostBridge instance
    prov,       \* the tool-notification registry of BotDojoChatProvider
    reg,        \* the app registry of McpAppHostContext
    exec,       \* the tool calls of BotDojoChatProvider and their step updates
    mcp,        \* the PostMessageBridges of BotDojoChatProvider, one per app id
    chat,       \* the step of the chat state that carries the canvas of an app
    calc,       \* the last call of a pure function: its name, input and output
    headless,   \* the message and the status of one HeadlessChat instance
    step        \* the last step: its operation, the inbound message, what it posted

vars == <<bridge, prov, reg, exec, mcp, chat, calc, headless, step>>

\* The sandbox-resource cache entry of a request is keyed by
\* `${flowId || 'unknown'}|${resource}`.
Resource == "ui://widget/main"
FlowIds == {Undefined, "f1"}
cacheKey(flowId, resource) == (IF flowId = Undefined THEN "unknown" ELSE flowId) \o "|" \o resource
CacheKeys == {cacheKey(f, Resource) : f \in FlowIds}
NoHtml == "none"
Htmls == {"h1", "h2"}              \* what the resolver callback may return
InlineHtml == "inline"             \* the html option of the hook

\* The options of the hook other than the url: toolInfo, arguments, result,
\* isComplete (hydration) and html (inline HTML of the resource).
BridgeProps ==
    { [toolName |-> Undefined, toolArguments |-> "obj", toolResult |-> "obj", isComplete |-> TRUE, html |-> FALSE],
      [toolName |-> "search", toolArguments |-> "obj", toolResult |-> "json", isComplete |-> TRUE, html |-> TRUE],
      [toolName |-> "search", toolArguments |-> "json", toolResult |-> Undefined, isComplete |-> TRUE, html |-> FALSE],
      [toolName |-> "search", toolArguments |-> "emptyobj", toolResult |-> Undefined, isComplete |-> FALSE, html |-> FALSE] }

ContentKey(url) == IF url # NoUrl THEN "url:" \o url ELSE "empty"

\* The bridge after the first commit and its effects: the content effect has
\* recorded the key and queued the iframe src, no iframe is in the DOM yet.
InitBridge(url, props) ==
    [ mounted |-> TRUE,
      url |-> url,
      props |-> props,
      iframeState |-> "idle",
      iframeStateRef |-> "idle",
      initFailed |-> FALSE,
      initError |-> "null",
      renderError |-> (url = NoUrl),
      iframeSrc |-> url,
      iframeSrcR |-> NoUrl,
      hasWindow |-> FALSE,
      hadWindow |-> FALSE,
      renderedContentKeyRef |-> ContentKey(url),
      pendingRequests |-> {},
      reqTimers |-> {},
      nextRequestId |-> 0,
      requestLimit |-> MaxReq,                         \* the bound on nextRequestId
      settled |-> [i \in 1..MaxRetryReq |-> <<>>],
      initializeAttempts |-> 0,
      initializeTimer |-> "null",
      liveInitializeTimers |-> 0,                      \* retry timers set and neither fired nor cleared
      initializeSent |-> 0,                            \* history: ui/initialize requests of this retry sequence
      hydrated |-> FALSE,                              \* history: hydration posted since the initialization began
      initTimeout |-> FALSE,
      resetTimers |-> {},
      pendingNotifications |-> <<>>,
      autoHeight |-> "null",
      sandboxResourceCache |-> [k \in CacheKeys |-> NoHtml],
      firstCached |-> [k \in CacheKeys |-> NoHtml],    \* history: the first entry of a key
      recovery |-> "none",                             \* history: "failed", then "reset"
      resolving |-> [k \in CacheKeys |-> 0],           \* resolver calls in flight
      pendingToolCalls |-> {} ]

\* An execution context threads the bridge and the messages posted so far
\* through the calls of one handler.
Ctx(b, out) == [b |-> b, out |-> out]

Post(c, msg) == IF c.b.hasWindow THEN Ctx(c.b, Append(c.out, msg)) ELSE c

sendResponse(c, id, result) == Post(c, Result(id, result))
sendError(c, id, message) == Post(c, Error(id, message))
sendNotification(c, method, params) == Post(c, Notification(method, params))

\* Faulty variant of sendRequest: no timer is armed for the request.
sendRequestNoTimer(c, method) ==
    IF ~c.b.hasWindow THEN c
    ELSE LET id == c.b.nextRequestId + 1
         IN Ctx([c.b EXCEPT !.nextRequestId = id,
                            !.pendingRequests = @ \cup {id}],
                Append(c.out, Request(id, method)))

sendRequest(c, method) ==
    IF ~c.b.hasWindow THEN c
    ELSE LET id == c.b.nextRequestId + 1
         IN Ctx([c.b EXCEPT !.nextRequestId = id,
                            !.reqTimers = @ \cup {id},
                            !.pendingRequests = @ \cup {id}],
                Append(c.out, Request(id, method)))

sendInitialize(c) ==
    IF c.b.iframeStateRef = "ready" \/ ~c.b.hasWindow THEN c
    ELSE LET sent == sendRequest(c, "ui/initialize")
         IN  Ctx([sent.b EXCEPT !.initializeSent = @ + 1], sent.out)

\* initializeTimer is "null" (the ref holds null), "armed" (a live timer) or
\* "dead" (the ref still holds the id of a timer that fired or was cleared).
clearTimeout(timer) == IF timer = "armed" THEN "dead" ELSE timer

\* The live timers after clearTimeout(initializeTimerRef.current).
Cleared(b) == IF b.initializeTimer = "armed" THEN b.liveInitializeTimers - 1
              ELSE b.liveInitializeTimers

attemptSend(c) ==
    IF c.b.iframeStateRef = "ready" THEN c
    ELSE LET c1 == Ctx([c.b EXCEPT !.initializeAttempts = @ + 1], c.out)
             c2 == sendInitialize(c1)
         IN IF c2.b.initializeAttempts < MaxInitializeAttempts
            THEN Ctx([c2.b EXCEPT !.initializeTimer = "armed",
                                  !.liveInitializeTimers = @ + 1], c2.out)
            ELSE Ctx([c2.b EXCEPT !.initializeTimer = "null"], c2.out)

\* Faulty variant of sendInitializeWithRetry: the running timer is not
\* cleared before the sequence restarts.
sendInitializeWithRetryNoClear(c) ==
    IF c.b.iframeStateRef = "ready" THEN c
    ELSE attemptSend(Ctx([c.b EXCEPT !.initializeAttempts = 0,
                                     !.initializeSent = 0,
                                     !.hydrated = FALSE], c.out))

sendInitializeWithRetry(c) ==
    IF c.b.iframeStateRef = "ready" THEN c
    ELSE attemptSend(Ctx([c.b EXCEPT !.liveInitializeTimers = Cleared(c.b),
                                     !.initializeTimer = clearTimeout(@),
                                     !.initializeAttempts = 0,
                                     !.initializeSent = 0,
                                     !.hydrated = FALSE], c.out))

HydrationMessages(props) ==
    LET args == parseMaybeJson(props.toolArguments)
        result == parseMaybeJson(props.toolResult)
    IN (IF IsNonEmptyObject(args)
        THEN <<Notification(ToolInput, [tool |-> props.toolName, arguments |-> args])>>
        ELSE <<>>)
       \o (IF result # Undefined /\ result # "emptystr"
           THEN <<Notification(ToolResult, [tool |-> props.toolName, result |-> result])>>
           ELSE IF props.isComplete
           THEN <<Notification(ToolResult, [tool |-> props.toolName, result |-> "completed"])>>
           ELSE <<>>)

sendHydrationData(c) ==
    IF c.b.props.toolName = Undefined \/ ~c.b.hasWindow THEN c
    ELSE Ctx([c.b EXCEPT !.hydrated = @ \/ HydrationMessages(c.b.props) # <<>>],
             c.out \o HydrationMessages(c.b.props))

\* ------------------------------------------------- sendToolNotification
sendToolNotification(c, method, params) ==
    IF ~validateToolParams(params, NotificationKind(method)) THEN c
    ELSE IF c.b.iframeStateRef = "ready" /\ c.b.hasWindow
    THEN Ctx(c.b, Append(c.out, Notification(method, params)))
    ELSE Ctx([c.b EXCEPT !.pendingNotifications = Append(@, [method |-> method, params |-> params])],
             c.out)

\* ------------------------------------------------------- sendStepUpdate
\* The step update notifyToolInputPartial(data) of a tool's execution
\* context builds and hands to the step-update callback of the app.
notifyToolInputPartial(toolName, data) ==
    LET isProgressUpdate == data = ProgressKind
    IN  [stepToolName      |-> toolName,
         toolName          |-> toolName,
         stepToolArguments |-> IF isProgressUpdate THEN Undefined ELSE data,
         stepToolProgress  |-> IF isProgressUpdate THEN data ELSE Undefined,
         stepToolResult    |-> Undefined,
         toolPhase         |-> Undefined,
         stepId            |-> Undefined,
         stepLabel         |-> Undefined]

processStepUpdate(stepUpdate) ==
    LET toolName == IF Truthy(stepUpdate.stepToolName) THEN stepUpdate.stepToolName
                    ELSE stepUpdate.toolName
        partial  == IF Truthy(stepUpdate.stepToolProgress)
                    THEN <<[method |-> ToolInputPartial,
                            params |-> [tool |-> toolName,
                                        arguments |-> Spread(stepUpdate.stepToolProgress,
                                                             "_botdojoProgress")]]>>
                    ELSE IF /\ stepUpdate.toolPhase = "streaming_args"
                            /\ Truthy(stepUpdate.stepId) \/ Truthy(stepUpdate.stepLabel)
                    THEN <<[method |-> ToolInputPartial,
                            params |-> [tool |-> toolName,
                                        arguments |-> Spread(stepUpdate.stepToolArguments,
                                                             "stepId")]]>>
                    ELSE <<>>
        args     == parseMaybeJson(stepUpdate.stepToolArguments)
        input    == IF /\ stepUpdate.toolPhase = "executing"
                       /\ Truthy(stepUpdate.stepToolArguments)
                       /\ IsNonEmptyObject(args)
                    THEN <<[method |-> ToolInput,
                            params |-> [tool |-> toolName, arguments |-> args]]>>
                    ELSE <<>>
        result   == parseMaybeJson(stepUpdate.stepToolResult)
        done     == IF result # Undefined /\ result # "emptystr"
                    THEN <<[method |-> ToolResult,
                            params |-> [tool |-> toolName, result |-> result]]>>
                    ELSE <<>>
    IN  IF ~Truthy(toolName) THEN <<>> ELSE partial \o input \o done

RECURSIVE SendAll(_, _)
SendAll(c, notifications) ==
    IF notifications = <<>> THEN c
    ELSE SendAll(sendToolNotification(c, Head(notifications).method, Head(notifications).params),
                 Tail(notifications))

sendStepUpdate(c, stepUpdate) == SendAll(c, processStepUpdate(stepUpdate))

\* --------------------------------------------------------- handleMessage
\* Faulty variant of the response branch: the entry and its timer are kept.
HandleResponseKeepsEntry(c, id) ==
    IF id \in c.b.pendingRequests
    THEN Ctx([c.b EXCEPT !.settled[id] = Append(@, "response")], c.out)
    ELSE c

\* A JSON-RPC response: an id and no method.
HandleResponse(c, id) ==
    IF id \in c.b.pendingRequests
    THEN Ctx([c.b EXCEPT !.reqTimers = @ \ {id},
                         !.pendingRequests = @ \ {id},
                         !.settled[id] = Append(@, "response")],
             c.out)
    ELSE c

HandleClientReady(c) == sendInitializeWithRetry(c)

HandleSandboxReady(c, hasResource) ==
    IF hasResource /\ c.b.props.html
    THEN sendNotification(c, "ui/notifications/sandbox-resource-ready", [html |-> InlineHtml])
    ELSE c

ReplayQueued(queue) ==
    [i \in 1..Len(queue) |-> Notification(queue[i].method, queue[i].params)]

HandleInitialized(c) ==
    LET c1 == Ctx([c.b EXCEPT !.liveInitializeTimers = Cleared(c.b),
                              !.initializeTimer = "null", !.iframeState = "ready"], c.out)
        c2 == sendHydrationData(c1)
    IN IF Len(c2.b.pendingNotifications) > 0 /\ c2.b.hasWindow
       THEN Ctx([c2.b EXCEPT !.pendingNotifications = <<>>],
                c2.out \o ReplayQueued(c2.b.pendingNotifications))
       ELSE c2

\* Legacy: the app sends ui/initialize as a request.
HandleLegacyInitialize(c, id) ==
    LET c1 == sendResponse(c, id, [hostCapabilities |-> "default"])
        c2 == sendNotification(c1, "ui/notifications/initialized", [empty |-> TRUE])
    IN Ctx([c2.b EXCEPT !.liveInitializeTimers = Cleared(c2.b),
                        !.initializeTimer = "null", !.iframeState = "ready"], c2.out)

HandleOpenLink(c, id) ==
    IF id # NoId THEN sendResponse(c, id, [ok |-> TRUE]) ELSE c

\* tools/call: with a tool name the host callback is awaited (the response is
\* posted when it settles), without one the failure envelope is posted at once.
HandleToolsCall(c, id, hasToolName) ==
    IF hasToolName
    THEN IF id # NoId THEN Ctx([c.b EXCEPT !.pendingToolCalls = @ \cup {id}], c.out) ELSE c
    ELSE IF id # NoId THEN sendResponse(c, id, [ok |-> FALSE, error |-> "No tool handler"]) ELSE c

ToolCallSettled(c, id, fulfilled) ==
    LET c1 == Ctx([c.b EXCEPT !.pendingToolCalls = @ \ {id}], c.out)
    IN IF fulfilled THEN sendResponse(c1, id, [ok |-> TRUE])
       ELSE sendError(c1, id, [code |-> -32000])

HandleUiMessage(c, id) ==
    IF id # NoId THEN sendResponse(c, id, [ok |-> TRUE]) ELSE c

HandleSizeChange(c, hasHeight) ==
    IF hasHeight THEN Ctx([c.b EXCEPT !.autoHeight = "h"], c.out) ELSE c

HandleUnknown(c, id) ==
    IF id # NoId THEN sendResponse(c, id, [ok |-> TRUE, ignored |-> TRUE]) ELSE c

\* ui/requests/sandbox-resource for the cache key of (flowId, resource):
\* the cache, then the inline HTML, then the resolver callback.
ResourceReady(flowId, html) ==
    Notification("ui/notifications/sandbox-resource-ready", [flowId |-> flowId, html |-> html])

Cached(b, key, html) ==
    [b EXCEPT !.sandboxResourceCache[key] = html,
              !.firstCached[key] = IF @ = NoHtml THEN html ELSE @]

HandleSandboxResource(c, hasResource, flowId, hasResolver) ==
    LET key == cacheKey(flowId, Resource)
    IN  IF ~hasResource THEN c
        ELSE IF c.b.sandboxResourceCache[key] # NoHtml
        THEN Post(c, ResourceReady(flowId, c.b.sandboxResourceCache[key]))
        ELSE IF c.b.props.html
        THEN Post(Ctx(Cached(c.b, key, InlineHtml), c.out), ResourceReady(flowId, InlineHtml))
        ELSE IF hasResolver
        THEN Ctx([c.b EXCEPT !.resolving[key] = @ + 1], c.out)
        ELSE c

\* A resolver that posts what it resolved without caching it.
ResolverSettledNoCache(c, flowId, html) ==
    LET key == cacheKey(flowId, Resource)
        c1  == Ctx([c.b EXCEPT !.resolving[key] = @ - 1], c.out)
    IN  IF html # NoHtml THEN Post(c1, ResourceReady(flowId, html)) ELSE c1

\* onSandboxResourceRequest of one request settles: with html, with a payload
\* without html, or by throwing (NoHtml for both).
ResolverSettled(c, flowId, html) ==
    LET key == cacheKey(flowId, Resource)
        c1  == Ctx([c.b EXCEPT !.resolving[key] = @ - 1], c.out)
    IN  IF html # NoHtml
        THEN Post(Ctx(Cached(c1.b, key, html), c1.out), ResourceReady(flowId, html))
        ELSE c1

\* ---------------------------------------------------------------- timers
\* The retry timer of sendInitializeWithRetry fires: attemptSend.
RetryTimerFired(c) ==
    attemptSend(Ctx([c.b EXCEPT !.initializeTimer = "dead",
                                !.liveInitializeTimers = @ - 1], c.out))

\* A timeout that rejects every pending request of the bridge.
RequestTimedOutRejectsAll(c, id) ==
    Ctx([c.b EXCEPT !.reqTimers = {},
                    !.pendingRequests = {},
                    !.settled = [i \in DOMAIN @ |->
                                    IF i \in c.b.pendingRequests THEN Append(@[i], "timeout")
                                    ELSE @[i]]],
        c.out)

\* The timer of one sendRequest fires.
RequestTimedOut(c, id) ==
    Ctx([c.b EXCEPT !.reqTimers = @ \ {id},
                    !.pendingRequests = @ \ {id},
                    !.settled[id] = Append(@, "timeout")],
        c.out)

\* Faulty variant of the timeout callback: the failure is not recorded.
InitTimeoutFiredSilently(c) ==
    LET b1 == [c.b EXCEPT !.initTimeout = FALSE]
    IN IF b1.iframeStateRef = "initializing"
       THEN Ctx([b1 EXCEPT !.iframeState = "idle"], c.out)
       ELSE Ctx(b1, c.out)

\* The 5 s timer of the initialization timeout effect fires.
InitTimeoutFired(c) ==
    LET b1 == [c.b EXCEPT !.initTimeout = FALSE]
    IN IF b1.iframeStateRef = "initializing"
       THEN Ctx([b1 EXCEPT !.iframeState = "idle",
                           !.recovery = "failed",
                           !.initFailed = TRUE,
                           !.initError = "MCP App initialization timed out after 5 seconds"],
                c.out)
       ELSE Ctx(b1, c.out)

\* ------------------------------------------------------- commit and effects
\* McpAppHost renders the iframe only when canRender and not initFailed.
canRender(b) == b.iframeSrc # NoUrl /\ ~b.renderError

\* Faulty variant of the content change effect: an empty url resets the
\* bridge also while an iframe is rendered.
ContentEffectNoPreserve(c) ==
    LET b == c.b
        contentKey == ContentKey(b.url)
    IN IF contentKey = b.renderedContentKeyRef THEN c
       ELSE Ctx([b EXCEPT !.renderedContentKeyRef = contentKey,
                          !.iframeState = "idle",
                          !.autoHeight = "null",
                          !.initFailed = FALSE,
                          !.initError = "null",
                          !.initializeAttempts = 0,
                          !.pendingNotifications = <<>>,
                          !.liveInitializeTimers = Cleared(b),
                          !.initializeTimer = "null",
                          !.hydrated = FALSE,
                          !.iframeSrc = b.url,
                          !.renderError = (b.url = NoUrl)],
                c.out)

ContentEffect(c) ==
    LET b == c.b
        contentKey == ContentKey(b.url)
    IN IF contentKey = b.renderedContentKeyRef THEN c
       ELSE IF contentKey = "empty" /\ b.renderedContentKeyRef # "" /\ b.iframeSrcR # NoUrl THEN c
       ELSE Ctx([b EXCEPT !.renderedContentKeyRef = contentKey,
                          !.iframeState = "idle",
                          !.autoHeight = "null",
                          !.initFailed = FALSE,
                          !.initError = "null",
                          !.initializeAttempts = 0,
                          !.pendingNotifications = <<>>,
                          !.liveInitializeTimers = Cleared(b),
                          !.initializeTimer = "null",
                          !.hydrated = FALSE,
                          !.iframeSrc = b.url,
                          !.renderError = (b.url = NoUrl)],
                c.out)

LoadingEffect(c) ==
    IF c.b.iframeStateRef = "loading"
    THEN sendInitializeWithRetry(Ctx([c.b EXCEPT !.iframeState = "initializing"], c.out))
    ELSE c

\* Faulty variant of the timeout effect: initFailed is cleared in any status.
TimeoutEffectClearsAlways(c) ==
    LET b1 == [c.b EXCEPT !.initTimeout = FALSE, !.initFailed = FALSE, !.initError = "null"]
    IN IF b1.iframeStateRef = "initializing" THEN Ctx([b1 EXCEPT !.initTimeout = TRUE], c.out)
       ELSE Ctx(b1, c.out)

TimeoutEffect(c) ==
    LET b1 == [c.b EXCEPT !.initTimeout = FALSE]
    IN IF b1.iframeStateRef = "initializing" THEN Ctx([b1 EXCEPT !.initTimeout = TRUE], c.out)
       ELSE IF b1.iframeStateRef = "ready"
       THEN Ctx([b1 EXCEPT !.initFailed = FALSE, !.initError = "null"], c.out)
       ELSE Ctx(b1, c.out)

\* One commit with the url prop u, then the passive effects whose
\* dependencies changed, in the order the hook declares them.
RenderCommit(c, u) ==
    LET b == c.b
        stateChanged == b.iframeState # b.iframeStateRef
        contentChanged == u # b.url \/ b.iframeSrc # b.iframeSrcR
        committed == Ctx([b EXCEPT !.url = u,
                                   !.iframeStateRef = b.iframeState,
                                   !.iframeSrcR = b.iframeSrc,
                                   !.hasWindow = canRender(b) /\ ~b.initFailed,
                                   !.hadWindow = @ \/ (canRender(b) /\ ~b.initFailed)],
                         c.out)
        c1 == IF contentChanged THEN ContentEffect(committed) ELSE committed
        c2 == IF stateChanged THEN LoadingEffect(c1) ELSE c1
    IN IF stateChanged THEN TimeoutEffect(c2) ELSE c2

\* Faulty variant of handleIframeLoad: loading is set from any status.
handleIframeLoadAlways(c) ==
    Ctx([c.b EXCEPT !.iframeState = "loading"], c.out)

handleIframeLoad(c) ==
    Ctx([c.b EXCEPT !.iframeState = IF @ = "idle" THEN "loading" ELSE @], c.out)

\* resetIframe, called from the Retry button: a discrete event, whose updates
\* are committed before the handler's zero-delay timer can fire.
\* A reset that only clears the iframe src and sets it again.
resetIframeSrcOnly(c) ==
    RenderCommit(Ctx([c.b EXCEPT !.recovery = IF @ = "failed" THEN "reset" ELSE @,
                                 !.iframeSrc = NoUrl,
                                 !.resetTimers = @ \cup {c.b.url}],
                     c.out),
                 c.b.url)

resetIframe(c) ==
    RenderCommit(Ctx([c.b EXCEPT !.initFailed = FALSE,
                                 !.recovery = IF @ = "failed" THEN "reset" ELSE @,
                                 !.initError = "null",
                                 !.renderError = FALSE,
                                 !.renderedContentKeyRef = "",
                                 !.hydrated = FALSE,
                                 !.iframeState = "idle",
                                 !.iframeSrc = NoUrl,
                                 !.resetTimers = @ \cup {c.b.url}],
                     c.out),
                 c.b.url)

ResetTimerFired(c, u) ==
    Ctx([c.b EXCEPT !.resetTimers = @ \ {u},
                    !.iframeSrc = IF u # NoUrl THEN u ELSE @],
        c.out)

\* The cleanup effects at unmount.
UnmountCleanup(c) ==
    Ctx([c.b EXCEPT !.mounted = FALSE,
                    !.hasWindow = FALSE,
                    !.liveInitializeTimers = Cleared(c.b),
                    !.initializeTimer = clearTimeout(@),
                    !.initTimeout = FALSE,
                    !.reqTimers = {},
                    !.pendingRequests = {},
                    !.settled = [i \in DOMAIN @ |-> IF i \in c.b.pendingRequests THEN Append(@[i], "unmount") ELSE @[i]]],
        c.out)

\* ----------------------------------------------------------------- actions
\* The message listener is attached while the hook is mounted. The messages
\* modelled are those of the bridge's own app: they can arrive once its
\* iframe has been in the DOM, also after the iframe was removed again.
Listening == bridge.mounted /\ bridge.hadWindow

InIds == 1..MaxInId
NoMsg == [method |-> "-", id |-> NoId]
Msg(method, id) == [method |-> method, id |-> id]
Start == Ctx(bridge, <<>>)

RECURSIVE SumOver(_, _)
SumOver(f, keys) ==
    IF keys = {} THEN 0
    ELSE LET k == CHOOSE x \in keys : TRUE IN f[k] + SumOver(f, keys \ {k})

InFlight(b) == SumOver(b.resolving, CacheKeys)

\* The model's bounds on the counters and queues the code leaves unbounded.
Bounded(b) ==
    /\ b.nextRequestId <= b.requestLimit
    /\ Len(b.pendingNotifications) <= MaxQueue
    /\ InFlight(b) <= MaxResolve

Do(op, msg, c) ==
    /\ Bounded(c.b)
    /\ bridge' = c.b
    /\ UNCHANGED <<prov, reg, exec, mcp, chat, calc, headless>>
    /\ step' = [op |-> op, msg |-> msg, out |-> c.out]

Render(u) ==
    /\ bridge.mounted
    /\ Do("Render", NoMsg, RenderCommit(Start, u))

IframeLoad ==
    /\ bridge.mounted /\ bridge.hasWindow
    /\ Do("IframeLoad", NoMsg, handleIframeLoad(Start))

ResetIframe ==
    /\ bridge.mounted
    /\ Do("ResetIframe", NoMsg, resetIframe(Start))

ResetTimer ==
    /\ bridge.mounted
    /\ \E u \in bridge.resetTimers : Do("ResetTimer", NoMsg, ResetTimerFired(Start, u))

Unmount ==
    /\ bridge.mounted
    /\ Do("Unmount", NoMsg, UnmountCleanup(Start))

\* A render with the same url and other props (inline html, tool name,
\* arguments, result, completion flag).
RenderProps ==
    /\ bridge.mounted
    /\ \E props \in {p \in BridgeProps : p.toolName # Undefined /\ p.isComplete} \ {bridge.props} :
          Do("RenderProps", NoMsg, RenderCommit(Ctx([bridge EXCEPT !.props = props], <<>>), bridge.url))

SendToolNotification ==
    /\ bridge.mounted
    /\ \E method \in ToolMethods, params \in ToolParams :
          Do("SendToolNotification", [method |-> method, id |-> NoId, params |-> params],
             sendToolNotification(Start, method, params))

RetryTimer ==
    /\ bridge.mounted /\ bridge.initializeTimer = "armed"
    /\ Do("RetryTimer", NoMsg, RetryTimerFired(Start))

RequestTimeout(id) ==
    /\ id \in bridge.reqTimers
    /\ Do("RequestTimeout", Msg("-", id), RequestTimedOut(Start, id))

InitTimeout ==
    /\ bridge.mounted /\ bridge.initTimeout
    /\ Do("InitTimeout", NoMsg, InitTimeoutFired(Start))

RecvResponse ==
    /\ Listening
    /\ \E id \in 1..MaxReq : Do("RecvResponse", Msg("-", id), HandleResponse(Start, id))

RecvClientReady(id) ==
    /\ Listening
    /\ Do("Recv", Msg("ui/notifications/client-ready", id), HandleClientReady(Start))

RecvSandboxReady(id) ==
    /\ Listening
    /\ \E hasResource \in BOOLEAN :
          Do("Recv", Msg("ui/notifications/sandbox-ready", id), HandleSandboxReady(Start, hasResource))

RecvSandboxResource(id, flowIds) ==
    /\ Listening
    /\ \E hasResource \in BOOLEAN, flowId \in flowIds, hasResolver \in BOOLEAN :
          Do("Recv", [method |-> "ui/requests/sandbox-resource", id |-> id,
                      params |-> [resource |-> hasResource, flowId |-> flowId]],
             HandleSandboxResource(Start, hasResource, flowId, hasResolver))

ResolverSettles(htmls) ==
    \E flowId \in FlowIds, html \in htmls \cup {NoHtml} :
        /\ bridge.resolving[cacheKey(flowId, Resource)] > 0
        /\ Do("ResolverSettles", [method |-> "-", id |-> NoId,
                                  params |-> [resource |-> TRUE, flowId |-> flowId]],
              ResolverSettled(Start, flowId, html))

RecvInitialized(id) ==
    /\ Listening
    /\ Do("Recv", Msg("ui/notifications/initialized", id), HandleInitialized(Start))

RecvLegacyInitialize(id) ==
    /\ Listening
    /\ Do("Recv", Msg("ui/initialize", id), HandleLegacyInitialize(Start, id))

RecvOpenLink(id) ==
    /\ Listening
    /\ Do("Recv", Msg("ui/open-link", id), HandleOpenLink(Start, id))

RecvToolsCall(id) ==
    /\ Listening
    /\ id \notin bridge.pendingToolCalls
    /\ \E hasToolName \in BOOLEAN :
          Do("Recv", Msg("tools/call", id), HandleToolsCall(Start, id, hasToolName))

ToolCallSettles ==
    \E id \in bridge.pendingToolCalls, fulfilled \in BOOLEAN :
        Do("ToolCallSettles", Msg("-", id), ToolCallSettled(Start, id, fulfilled))

RecvUiMessage(id) ==
    /\ Listening
    /\ Do("Recv", Msg("ui/message", id), HandleUiMessage(Start, id))

RecvSizeChange(id) ==
    /\ Listening
    /\ \E hasHeight \in BOOLEAN :
          Do("Recv", Msg("ui/notifications/size-change", id), HandleSizeChange(Start, hasHeight))

RecvUnknown(id) ==
    /\ Listening
    /\ Do("Recv", Msg("unknown/method", id), HandleUnknown(Start, id))

\* ------------------------------------- BotDojoChatProvider: notifications
\* toolNotificationSendersRef is a Map: senders gives the sender of each app
\* id (0: no entry), senderOrder the insertion order of its keys. A sender is
\* identified by the number of its registration. Every notification sent is
\* numbered; log, sent and regsSince record what the senders were called with.
Apps == {"A", "B"}

InitProv ==
    [ senders |-> [a \in Apps |-> 0],
      senderOrder |-> <<>>,
      pendingToolNotifications |-> [a \in Apps |-> <<>>],
      pendingBroadcastNotifications |-> <<>>,
      unregisters |-> {},
      nextSender |-> 0,
      nextNotif |-> 0,
      sent |-> <<>>,
      regsSince |-> <<>>,
      log |-> <<>> ]

Call(a, s, n) == [app |-> a, sender |-> s, n |-> n]

RemoveApp(order, a) == SelectSeq(order, LAMBDA x : x # a)

sendToolNotificationToApp(p, appId) ==
    LET n == p.nextNotif + 1
        sender == p.senders[appId]
        p1 == [p EXCEPT !.nextNotif = n, !.regsSince = Append(@, <<>>)]
    IN IF sender # 0
       THEN [p1 EXCEPT !.sent = Append(@, [kind |-> "app", target |-> appId, queued |-> FALSE]),
                       !.log = Append(@, Call(appId, sender, n))]
       ELSE [p1 EXCEPT !.sent = Append(@, [kind |-> "app", target |-> appId, queued |-> TRUE]),
                       !.pendingToolNotifications[appId] = Append(@, n)]

broadcastToolNotification(p) ==
    LET n == p.nextNotif + 1
        p1 == [p EXCEPT !.nextNotif = n, !.regsSince = Append(@, <<>>)]
    IN IF Len(p.senderOrder) = 0
       THEN [p1 EXCEPT !.sent = Append(@, [kind |-> "broadcast", target |-> "*", queued |-> TRUE]),
                       !.pendingBroadcastNotifications = Append(@, n)]
       ELSE [p1 EXCEPT !.sent = Append(@, [kind |-> "broadcast", target |-> "*", queued |-> FALSE]),
                       !.log = @ \o [i \in 1..Len(p.senderOrder) |->
                                        Call(p.senderOrder[i], p.senders[p.senderOrder[i]], n)]]

ReplayTo(a, s, queue) == [i \in 1..Len(queue) |-> Call(a, s, queue[i])]

\* Faulty variant of the registration: the per-app queue is not deleted.
registerKeepsPending(p, appId) ==
    LET s == p.nextSender + 1
    IN [p EXCEPT !.nextSender = s,
                 !.senders[appId] = s,
                 !.senderOrder = IF p.senders[appId] # 0 THEN @ ELSE Append(@, appId),
                 !.pendingBroadcastNotifications = <<>>,
                 !.unregisters = @ \cup {[app |-> appId, sender |-> s]},
                 !.regsSince = [n \in DOMAIN @ |-> Append(@[n], [app |-> appId, sender |-> s])],
                 !.log = @ \o ReplayTo(appId, s, p.pendingToolNotifications[appId])
                           \o ReplayTo(appId, s, p.pendingBroadcastNotifications)]

\* Faulty variant of the registration: the broadcast queue is not cleared.
registerKeepsBroadcasts(p, appId) ==
    LET s == p.nextSender + 1
    IN [p EXCEPT !.nextSender = s,
                 !.senders[appId] = s,
                 !.senderOrder = IF p.senders[appId] # 0 THEN @ ELSE Append(@, appId),
                 !.pendingToolNotifications[appId] = <<>>,
                 !.unregisters = @ \cup {[app |-> appId, sender |-> s]},
                 !.regsSince = [n \in DOMAIN @ |-> Append(@[n], [app |-> appId, sender |-> s])],
                 !.log = @ \o ReplayTo(appId, s, p.pendingToolNotifications[appId])
                           \o ReplayTo(appId, s, p.pendingBroadcastNotifications)]

registerToolNotificationSender(p, appId) ==
    LET s == p.nextSender + 1
        pendingForApp == p.pendingToolNotifications[appId]
        pendingBroadcasts == p.pendingBroadcastNotifications
    IN [p EXCEPT !.nextSender = s,
                 !.senders[appId] = s,
                 !.senderOrder = IF p.senders[appId] # 0 THEN @ ELSE Append(@, appId),
                 !.pendingToolNotifications[appId] = <<>>,
                 !.pendingBroadcastNotifications = <<>>,
                 !.unregisters = @ \cup {[app |-> appId, sender |-> s]},
                 !.regsSince = [n \in DOMAIN @ |-> Append(@[n], [app |-> appId, sender |-> s])],
                 !.log = @ \o ReplayTo(appId, s, pendingForApp) \o ReplayTo(appId, s, pendingBroadcasts)]

\* The function registerToolNotificationSender returned, called.
unregisterToolNotificationSender(p, u) ==
    [p EXCEPT !.senders[u.app] = 0,
              !.senderOrder = RemoveApp(@, u.app),
              !.unregisters = @ \ {u}]

BoundedProv(p) ==
    /\ p.nextNotif <= MaxNotif
    /\ p.nextSender <= MaxSenders

DoProv(op, p) ==
    /\ BoundedProv(p)
    /\ prov' = p
    /\ step' = [op |-> op, msg |-> NoMsg, out |-> SubSeq(p.log, Len(prov.log) + 1, Len(p.log))]
    /\ UNCHANGED <<bridge, reg, exec, mcp, chat, calc, headless>>

SendToolNotificationToApp ==
    \E a \in Apps : DoProv("sendToolNotificationToApp", sendToolNotificationToApp(prov, a))

BroadcastToolNotification ==
    DoProv("broadcastToolNotification", broadcastToolNotification(prov))

RegisterToolNotificationSender ==
    \E a \in Apps : DoProv("registerToolNotificationSender", registerToolNotificationSender(prov, a))

UnregisterToolNotificationSender ==
    \E u \in prov.unregisters : DoProv("unregister", unregisterToolNotificationSender(prov, u))

\* ------------------------------------------ McpAppHostContext: sendToApp
\* registeredAppsRef maps an app id to the app object of its last
\* registerApp: registeredApps tells which ids have an entry. requests[id] is
\* the request host-<id> of sendToApp: the app id it was sent to, whether the
\* app object whose pendingRequests map it was put into is still the one in
\* registeredAppsRef (current), whether it is still in that map, whether its
\* timer is armed, and how its promise was settled.
InitReg ==
    [ registeredApps |-> [a \in Apps |-> FALSE],
      nextRequestId |-> 0,
      requests |-> <<>> ]

\* The app id gets a new app object with an empty pendingRequests map.
registerApp(r, mcpAppId) ==
    [r EXCEPT !.registeredApps[mcpAppId] = TRUE,
              !.requests = [id \in DOMAIN @ |->
                     IF @[id].app = mcpAppId THEN [@[id] EXCEPT !.current = FALSE] ELSE @[id]]]

\* The wrapped reject of every entry of the app's map, then the app's removal.
unregisterApp(r, mcpAppId) ==
    [r EXCEPT !.requests = [id \in DOMAIN @ |->
                     IF @[id].app = mcpAppId /\ @[id].current
                     THEN IF @[id].inMap
                          THEN [@[id] EXCEPT !.current = FALSE,
                                             !.timer = FALSE,
                                             !.settled = IF @ = <<>> THEN <<"unregistered">> ELSE @]
                          ELSE [@[id] EXCEPT !.current = FALSE]
                     ELSE @[id]],
              !.registeredApps[mcpAppId] = FALSE]

sendToApp(r, mcpAppId) ==
    IF ~r.registeredApps[mcpAppId]
    THEN r
    ELSE [r EXCEPT !.nextRequestId = @ + 1,
                   !.requests = Append(@, [app |-> mcpAppId, current |-> TRUE, inMap |-> TRUE,
                                           timer |-> TRUE, settled |-> <<>>])]

\* The 10 s timer of one sendToApp fires.
SendToAppTimedOut(r, id) ==
    [r EXCEPT !.requests[id] = [@ EXCEPT !.inMap = FALSE,
                                         !.timer = FALSE,
                                         !.settled = IF @ = <<>> THEN <<"timeout">> ELSE @]]

BoundedReg(r) == r.nextRequestId <= MaxSend

DoReg(r) ==
    /\ BoundedReg(r)
    /\ reg' = r
    /\ UNCHANGED <<bridge, prov, exec, mcp, chat, calc, headless, step>>

RegisterApp(a) == DoReg(registerApp(reg, a))

UnregisterApp(a) == DoReg(unregisterApp(reg, a))

SendToApp(a) == DoReg(sendToApp(reg, a))

SendToAppTimeout(id) ==
    /\ id \in DOMAIN reg.requests
    /\ reg.requests[id].timer
    /\ DoReg(SendToAppTimedOut(reg, id))

\* ------------------------------------------- provider: tool calls
\* BotDojoChatProvider.executeToolCall and what surrounds it: the tool_call
\* message of the embedded chat, the step_update that associates a tool name
\* with an app, and the step-update callbacks the apps register.

NoApp == "none"
Broadcast == "ALL"
ContextName == "ctx"
Tools == {"render"}                    \* the tools of the model context
ToolNames == Tools \cup {"missing"}    \* the names a tool_call may carry
Prefixed(contextName, toolName) == contextName \o "_" \o toolName
ToolKeys == Tools \cup {Prefixed(ContextName, t) : t \in Tools}
ToolResults == {Undefined, "value", "wrapped"}

\* stepToolResult of the step update of a result: data?.result ?? data.
StepToolResult(data) == IF data = "wrapped" THEN "inner" ELSE data

InitExec ==
    [ activeAppByTool     |-> [k \in ToolKeys |-> NoApp],
      stepUpdateCallbacks |-> <<>>,                 \* app ids in insertion order
      pendingStepUpdates  |-> [a \in Apps |-> <<>>],
      calls               |-> <<>>,                 \* the tool_call messages, by requestId
      notified            |-> 0,                    \* notifications tools sent themselves
      firstAssociated     |-> [k \in ToolKeys |-> NoApp],   \* history
      lastAssociated      |-> [k \in ToolKeys |-> NoApp],   \* history
      out                 |-> <<>> ]                \* the Event records of the step

Event(t, call, kind, auto, app, value) ==
    [t |-> t, call |-> call, kind |-> kind, auto |-> auto, app |-> app, value |-> value]

Logged(x, events) == [x EXCEPT !.out = @ \o events]

HasCallback(x, a) == \E i \in DOMAIN x.stepUpdateCallbacks : x.stepUpdateCallbacks[i] = a

\* A step update that keeps the app a tool name was first associated with.
stepUpdateKeepsFirst(x, toolName, appId) ==
    [x EXCEPT !.activeAppByTool[toolName] = IF @ = NoApp THEN appId ELSE @,
              !.lastAssociated[toolName] = appId,
              !.firstAssociated[toolName] = IF @ = NoApp THEN appId ELSE @]

\* step_update with a canvas: activeAppByToolRef.set(toolName, canvasId).
stepUpdateAssociates(x, toolName, appId) ==
    [x EXCEPT !.activeAppByTool[toolName] = appId,
              !.lastAssociated[toolName] = appId,
              !.firstAssociated[toolName] = IF @ = NoApp THEN appId ELSE @]

\* The queued step updates of the app are replayed to the new callback, each
\* under its own try/catch, and the queue is deleted.
registerStepUpdateCallback(x, appId) ==
    LET queued == x.pendingStepUpdates[appId]
        replay == [i \in DOMAIN queued |-> [queued[i] EXCEPT !.t = "callback"]]
    IN  Logged([x EXCEPT !.stepUpdateCallbacks =
                              IF HasCallback(x, appId) THEN @ ELSE Append(@, appId),
                         !.pendingStepUpdates[appId] = <<>>],
               replay)

unregisterStepUpdateCallback(x, appId) ==
    [x EXCEPT !.stepUpdateCallbacks = SelectSeq(@, LAMBDA a : a # appId)]

\* A resolution that asks the association of the tool name before the
\* explicit target.
resolvedAppIdActiveFirst(x, toolName, targetAppId, contextName) ==
    IF x.activeAppByTool[toolName] # NoApp THEN x.activeAppByTool[toolName]
    ELSE IF targetAppId # NoApp THEN targetAppId
    ELSE Broadcast

\* The target app of a tool call.
resolvedAppId(x, toolName, targetAppId, contextName) ==
    IF targetAppId # NoApp THEN targetAppId
    ELSE IF x.activeAppByTool[toolName] # NoApp THEN x.activeAppByTool[toolName]
    ELSE IF contextName # NoApp
            /\ x.activeAppByTool[Prefixed(contextName, toolName)] # NoApp
         THEN x.activeAppByTool[Prefixed(contextName, toolName)]
    ELSE Broadcast

\* A call that was answered keeps its outcome only.
Answered(state) ==
    [toolName |-> "-", targetAppId |-> NoApp, contextName |-> NoApp,
     resolvedAppId |-> NoApp, state |-> state]

ToolResponse(requestId, kind, value) ==
    Event("tool_response", requestId, kind, FALSE, NoApp, value)

\* The tool_call handler up to the await of tool.execute: no model context
\* and an unknown tool are answered at once with an error.
executeToolCall(x, toolName, targetAppId, hasContext, contextName) ==
    LET requestId == Len(x.calls) + 1
        found     == hasContext /\ toolName \in Tools
        resolved  == IF found THEN resolvedAppId(x, toolName, targetAppId, contextName)
                     ELSE NoApp
        call      == IF found
                     THEN [toolName |-> toolName, targetAppId |-> targetAppId,
                           contextName |-> contextName, resolvedAppId |-> resolved,
                           state |-> "executing"]
                     ELSE Answered(IF hasContext THEN "not found" ELSE "no context")
    IN  Logged([x EXCEPT !.calls = Append(@, call)],
               IF found THEN <<>> ELSE <<ToolResponse(requestId, "error", call.state)>>)

\* The step update of one notification goes to the callback of the resolved
\* app, or to its queue, or to every callback in turn; a callback that throws
\* ends the delivery.  thrower is the app whose callback throws, if any.
Deliveries(x, id, kind, auto, value, thrower) ==
    LET target == x.calls[id].resolvedAppId
        cbs    == x.stepUpdateCallbacks
        upto   == IF \E i \in DOMAIN cbs : cbs[i] = thrower
                  THEN CHOOSE i \in DOMAIN cbs : cbs[i] = thrower
                  ELSE Len(cbs)
    IN  IF target # Broadcast
        THEN <<Event(IF HasCallback(x, target) THEN "callback" ELSE "queue",
                     id, kind, auto, target, value)>>
        ELSE [i \in 1..upto |-> Event("callback", id, kind, auto, cbs[i], value)]

DeliveryThrew(x, id, thrower) ==
    LET target == x.calls[id].resolvedAppId
    IN  /\ thrower # NoApp
        /\ HasCallback(x, thrower)
        /\ target \in {Broadcast, thrower}

notify(x, id, kind, auto, data, thrower) ==
    LET value  == IF kind = "result" THEN StepToolResult(data) ELSE data
        events == Deliveries(x, id, kind, auto, value, thrower)
        queued == SelectSeq(events, LAMBDA e : e.t = "queue")
    IN  Logged([x EXCEPT !.pendingStepUpdates =
                             [a \in Apps |-> @[a] \o SelectSeq(queued, LAMBDA e : e.app = a)]],
               <<Event("notify", id, kind, auto, NoApp, data)>> \o events)

\* The tool calls notifyToolInputPartial or notifyToolResult of its
\* execution context while it runs.
toolNotifies(x, id, kind, thrower) ==
    [notify(x, id, kind, FALSE, "value", thrower) EXCEPT !.notified = @ + 1]

\* tool.execute returned: the automatic notifyToolResult, then the response.
toolReturned(x, id, result, thrower) ==
    LET sent  == IF result # Undefined THEN notify(x, id, "result", TRUE, result, thrower)
                 ELSE x
        threw == result # Undefined /\ DeliveryThrew(x, id, thrower)
    IN  Logged([sent EXCEPT !.calls[id] = Answered(IF threw THEN "failed" ELSE "returned")],
               <<IF threw THEN ToolResponse(id, "error", "callback")
                 ELSE ToolResponse(id, "result", result)>>)

\* tool.execute threw.
toolThrew(x, id) ==
    Logged([x EXCEPT !.calls[id] = Answered("threw")], <<ToolResponse(id, "error", "threw")>>)

BoundedExec(x) ==
    /\ Len(x.calls) <= MaxCalls
    /\ x.notified <= MaxPartials

DoExec(op, x) ==
    /\ BoundedExec(x)
    /\ exec' = [x EXCEPT !.out = <<>>]
    /\ step' = [op |-> op, msg |-> NoMsg, out |-> x.out]
    /\ UNCHANGED <<bridge, prov, reg, mcp, chat, calc, headless>>

Executing(id) == id \in DOMAIN exec.calls /\ exec.calls[id].state = "executing"

StepUpdate(toolName) ==
    \E a \in Apps : DoExec("step_update", stepUpdateAssociates(exec, toolName, a))

RegisterStepUpdateCallback ==
    \E a \in Apps : DoExec("registerStepUpdateCallback", registerStepUpdateCallback(exec, a))

UnregisterStepUpdateCallback ==
    \E a \in Apps :
        /\ HasCallback(exec, a)
        /\ DoExec("unregisterStepUpdateCallback", unregisterStepUpdateCallback(exec, a))

ToolCall(contextName) ==
    \E toolName \in ToolNames, targetAppId \in Apps \cup {NoApp}, hasContext \in BOOLEAN :
        DoExec("tool_call",
               executeToolCall(exec, toolName, targetAppId, hasContext, contextName))

ToolNotifies ==
    \E id \in 1..MaxCalls, kind \in {"partial", "result"}, thrower \in Apps \cup {NoApp} :
        /\ Executing(id)
        /\ DoExec("toolNotifies", toolNotifies(exec, id, kind, thrower))

ToolReturns ==
    \E id \in 1..MaxCalls, result \in ToolResults, thrower \in Apps \cup {NoApp} :
        /\ Executing(id)
        /\ DoExec("toolReturns", toolReturned(exec, id, result, thrower))

ToolThrows ==
    \E id \in 1..MaxCalls :
        /\ Executing(id)
        /\ DoExec("toolThrows", toolThrew(exec, id))

\* The step-update callback the canvas registers with the provider is the
\* bridge's sendStepUpdate: a notifyToolInputPartial(data) call of a running
\* tool hands it the step update built from data.
PartialData == {"obj", ProgressKind}

NotifyToolInputPartial ==
    /\ bridge.mounted
    /\ \E toolName \in Tools, data \in PartialData :
          Do("notifyToolInputPartial", [method |-> "-", id |-> NoId, data |-> data],
             sendStepUpdate(Start, notifyToolInputPartial(toolName, data)))

\* The step updates of the server that reach the same callback.
NoStepUpdate ==
    [stepToolName |-> "render", toolName |-> Undefined, stepToolArguments |-> Undefined,
     stepToolProgress |-> Undefined, stepToolResult |-> Undefined, toolPhase |-> Undefined,
     stepId |-> Undefined, stepLabel |-> Undefined]

StepUpdates ==
    { [NoStepUpdate EXCEPT !.toolPhase = "streaming_args", !.stepId = id, !.stepToolArguments = a] :
          id \in {Undefined, "s1"}, a \in {Undefined, "obj"} }
    \cup { [NoStepUpdate EXCEPT !.toolPhase = "executing", !.stepToolArguments = a] :
               a \in {"json", "emptyobj"} }
    \cup { [NoStepUpdate EXCEPT !.toolPhase = "complete", !.stepToolResult = "obj"],
           [NoStepUpdate EXCEPT !.stepToolName = Undefined, !.stepToolResult = "obj"] }

SendStepUpdate ==
    /\ bridge.mounted
    /\ \E stepUpdate \in StepUpdates :
          Do("sendStepUpdate", [method |-> "-", id |-> NoId, stepUpdate |-> stepUpdate],
             sendStepUpdate(Start, stepUpdate))

\* Messages posted to the host window by the iframe of another bridge: the
\* listener is on the window and handleMessage looks at event.data only, so
\* the bridge handles them as it handles those of its own app.
ForeignResponse ==
    /\ bridge.mounted
    /\ \E id \in 1..MaxReq : Do("RecvForeign", Msg("-", id), HandleResponse(Start, id))

ForeignInitialized ==
    /\ bridge.mounted
    /\ Do("RecvForeign", Msg("ui/notifications/initialized", NoId), HandleInitialized(Start))

ForeignOpenLink ==
    /\ bridge.mounted
    /\ \E id \in InIds :
          Do("RecvForeign", Msg("ui/open-link", id), HandleOpenLink(Start, id))

\* -------------------------------------- provider: PostMessageBridge per app
\* registerMcpApp, unregisterMcpApp and forwardEventToApp of
\* BotDojoChatProvider.  A bridge is its app id, whether it is started, and
\* the events it was given to send; an event is its number and whether it
\* waited in the queue.
InitMcp ==
    [ appBridges       |-> [a \in Apps |-> 0],      \* 0: no entry for the app id
      bridges          |-> <<>>,
      pendingAppEvents |-> [a \in Apps |-> <<>>],
      nextEvent        |-> 0 ]

Sent(n, queued) == [n |-> n, queued |-> queued]

\* A registration that leaves the bridge it replaces running.
registerMcpAppKeepsOld(m, appId) ==
    [m EXCEPT !.bridges = Append(@, [app |-> appId, started |-> TRUE,
                                     sent |-> [i \in DOMAIN m.pendingAppEvents[appId] |->
                                                  Sent(m.pendingAppEvents[appId][i], TRUE)]]),
              !.appBridges[appId] = Len(m.bridges) + 1,
              !.pendingAppEvents[appId] = <<>>]

registerMcpApp(m, appId) ==
    LET existing == m.appBridges[appId]
        stopped  == IF existing # 0 THEN [m.bridges EXCEPT ![existing].started = FALSE]
                    ELSE m.bridges
        pending  == m.pendingAppEvents[appId]
        created  == [app |-> appId, started |-> TRUE,
                     sent |-> [i \in DOMAIN pending |-> Sent(pending[i], TRUE)]]
    IN  [m EXCEPT !.bridges = Append(stopped, created),
                  !.appBridges[appId] = Len(m.bridges) + 1,
                  !.pendingAppEvents[appId] = <<>>]

unregisterMcpApp(m, appId) ==
    LET existing == m.appBridges[appId]
    IN  [m EXCEPT !.bridges = IF existing # 0 THEN [@ EXCEPT ![existing].started = FALSE] ELSE @,
                  !.appBridges[appId] = 0,
                  !.pendingAppEvents[appId] = <<>>]

forwardEventToApp(m, appId) ==
    LET existing == m.appBridges[appId]
        n        == m.nextEvent + 1
    IN  IF existing # 0
        THEN [m EXCEPT !.nextEvent = n, !.bridges[existing].sent = Append(@, Sent(n, FALSE))]
        ELSE [m EXCEPT !.nextEvent = n, !.pendingAppEvents[appId] = Append(@, n)]

BoundedMcp(m) ==
    /\ Len(m.bridges) <= MaxBridges
    /\ m.nextEvent <= MaxEvents

DoMcp(op, m) ==
    /\ BoundedMcp(m)
    /\ mcp' = m
    /\ step' = [op |-> op, msg |-> NoMsg, out |-> <<>>]
    /\ UNCHANGED <<bridge, prov, reg, exec, chat, calc, headless>>

RegisterMcpApp == \E a \in Apps : DoMcp("registerMcpApp", registerMcpApp(mcp, a))

UnregisterMcpApp == \E a \in Apps : DoMcp("unregisterMcpApp", unregisterMcpApp(mcp, a))

ForwardEventToApp == \E a \in Apps : DoMcp("forwardEventToApp", forwardEventToApp(mcp, a))

\* ------------------------------------------------------------ HeadlessChat
\* The message handler of HeadlessChat: currentMessageRef, the status it
\* reports, and the timers that reset the status after a completed message.
\* open is the message the embedded chat is streaming, which sends one
\* message at a time.
NoMessage == [messageId |-> 0, role |-> "none"]

InitHeadless ==
    [ currentMessage |-> NoMessage,
      currentStatus  |-> "idle",
      idleTimers     |-> 0,                  \* the 100 ms timers set and not yet fired
      messages       |-> 0,                  \* the message ids used
      open           |-> NoMessage ]         \* history: the message being streamed

handleMessageStart(h, messageId, role) ==
    [h EXCEPT !.currentMessage = [messageId |-> messageId, role |-> role],
              !.currentStatus = IF role = "user" THEN @ ELSE "running",
              !.messages = messageId,
              !.open = [messageId |-> messageId, role |-> role]]

handleMessageComplete(h, messageId) ==
    IF h.currentMessage # NoMessage /\ h.currentMessage.messageId = messageId
    THEN [h EXCEPT !.currentMessage = NoMessage,
                   !.currentStatus = "completed",
                   !.idleTimers = @ + 1,
                   !.open = NoMessage]
    ELSE [h EXCEPT !.open = NoMessage]

handleError(h) ==
    [h EXCEPT !.currentStatus = "error", !.currentMessage = NoMessage, !.open = NoMessage]

handleRequestAborted(h) ==
    [h EXCEPT !.currentStatus = "idle", !.currentMessage = NoMessage, !.open = NoMessage]

\* The callback of the timer of a completed message.
IdleTimerFired(h) ==
    [h EXCEPT !.currentStatus = "idle", !.idleTimers = @ - 1]

DoHeadless(op, messageId, h) ==
    /\ h.messages <= MaxMessages
    /\ headless' = h
    /\ step' = [op |-> op, msg |-> [method |-> op, id |-> messageId], out |-> <<>>]
    /\ UNCHANGED <<bridge, prov, reg, exec, mcp, chat, calc>>

MessageStart ==
    /\ headless.open = NoMessage
    /\ \E role \in {"user", "assistant"} :
          DoHeadless("message_start", headless.messages + 1,
                     handleMessageStart(headless, headless.messages + 1, role))

MessageComplete ==
    /\ headless.open # NoMessage
    /\ DoHeadless("message_complete", headless.open.messageId,
                  handleMessageComplete(headless, headless.open.messageId))

ErrorEvent ==
    /\ headless.open # NoMessage
    /\ DoHeadless("error", headless.open.messageId, handleError(headless))

RequestAborted ==
    /\ headless.open # NoMessage
    /\ DoHeadless("request_aborted", headless.open.messageId, handleRequestAborted(headless))

IdleTimer ==
    /\ headless.idleTimers > 0
    /\ DoHeadless("idleTimer", NoId, IdleTimerFired(headless))

\* ------------------------------------------------------- pure functions
\* The call of a pure function: which one, on what, with what result.
\* ------------------------------------------- step updates and the canvas
\* A step of a message, with the keys the updates of a tool carry.  Absent
\* marks a key the object does not have.
Absent == "absent"
StepIds == {"s1", "A"}
NoCanvasData == [url |-> Absent, html |-> Absent, state |-> Absent, height |-> Absent, width |-> Absent]
Canvas(canvasId, canvasType, canvasData) ==
    [canvasId |-> canvasId, canvasType |-> canvasType, canvasData |-> canvasData]
NoCanvas == Canvas(Absent, Absent, NoCanvasData)       \* the step has no canvas key
UndefinedData == [f \in DOMAIN NoCanvasData |-> Undefined]   \* canvasData is undefined
NoStep ==
    [stepId |-> Absent, toolPhase |-> Absent, stepStatus |-> Absent, toolName |-> Absent,
     arguments |-> Absent, result |-> Absent, canvasId |-> Absent, canvas |-> NoCanvas]

Or(a, b) == IF Truthy(a) THEN a ELSE b

IfGiven(v) == IF v # Undefined THEN v ELSE Absent

\* Faulty variant of sendCanvasUpdate: the canvas object is always included.
sendCanvasUpdateAlwaysCanvas(stepId, canvasId, canvasData, canvasType, toolInfo) ==
    LET resolvedStepId   == Or(stepId, canvasId)
        resolvedCanvasId == Or(canvasId, stepId)
    IN  IF ~Truthy(resolvedStepId) \/ ~Truthy(resolvedCanvasId) THEN NoStep
        ELSE [stepId     |-> resolvedStepId,
              toolPhase  |-> "executing",
              stepStatus |-> "processing",
              toolName   |-> IF Truthy(toolInfo.toolName) THEN toolInfo.toolName ELSE Absent,
              arguments  |-> IfGiven(toolInfo.arguments),
              result     |-> IfGiven(toolInfo.result),
              canvasId   |-> Absent,
              canvas     |-> Canvas(resolvedCanvasId, Or(canvasType, "mcp-app"),
                                    IF canvasData # UndefinedData THEN canvasData
                                    ELSE NoCanvasData)]

\* BotDojoConnector.sendCanvasUpdate: the step update sent to the agent
\* host, NoStep when the update is skipped.
sendCanvasUpdate(stepId, canvasId, canvasData, canvasType, toolInfo) ==
    LET resolvedStepId   == Or(stepId, canvasId)
        resolvedCanvasId == Or(canvasId, stepId)
    IN  IF ~Truthy(resolvedStepId) \/ ~Truthy(resolvedCanvasId) THEN NoStep
        ELSE [stepId     |-> resolvedStepId,
              toolPhase  |-> "executing",
              stepStatus |-> "processing",
              toolName   |-> IF Truthy(toolInfo.toolName) THEN toolInfo.toolName ELSE Absent,
              arguments  |-> IfGiven(toolInfo.arguments),
              result     |-> IfGiven(toolInfo.result),
              canvasId   |-> IF canvasData = UndefinedData THEN resolvedCanvasId ELSE Absent,
              canvas     |-> IF canvasData # UndefinedData
                             THEN Canvas(resolvedCanvasId, Or(canvasType, "mcp-app"), canvasData)
                             ELSE NoCanvas]

\* The functions of the execution context the connector gives a tool.
ContextCalls == {"updateState", "notifyToolInputPartial", "notifyToolInput", "notifyToolResult"}

toolExecContext(call, stepId, canvasId, value) ==
    LET baseToolInfo == [toolName |-> "render", arguments |-> "obj", result |-> Undefined]
    IN  IF call = "updateState"
        THEN sendCanvasUpdate(stepId, canvasId, [NoCanvasData EXCEPT !.state = value],
                              "mcp-app", baseToolInfo)
        ELSE IF call = "notifyToolResult"
        THEN sendCanvasUpdate(stepId, canvasId, UndefinedData, "mcp-app",
                              [baseToolInfo EXCEPT !.result = value])
        ELSE sendCanvasUpdate(stepId, canvasId, UndefinedData, "mcp-app",
                              [baseToolInfo EXCEPT !.arguments = value])

\* The step_update branch of the provider's handleMessage: the html of a
\* ui:// canvas url is resolved into the step before it is dispatched.
stepToDispatch(rawStep, resource) ==
    IF /\ rawStep.canvas # NoCanvas
       /\ rawStep.canvas.canvasData.url = Resource
       /\ rawStep.canvas.canvasData.html = Absent
       /\ resource # NoHtml
    THEN [rawStep EXCEPT !.canvas.canvasData.html = resource]
    ELSE rawStep

\* STEP_UPDATE of the chat reducer: a field-level merge that goes down to
\* the fields of the canvas.
MergeField(old, new) == IF new = Absent THEN old ELSE new

mergeCanvas(old, new) ==
    IF new = NoCanvas THEN old
    ELSE IF old = NoCanvas THEN new
    ELSE [canvasId   |-> MergeField(old.canvasId, new.canvasId),
          canvasType |-> MergeField(old.canvasType, new.canvasType),
          canvasData |-> [f \in DOMAIN NoCanvasData |->
                             MergeField(old.canvasData[f], new.canvasData[f])]]

mergeStep(old, new) ==
    [f \in DOMAIN NoStep |-> IF f = "canvas" THEN mergeCanvas(old.canvas, new.canvas)
                             ELSE MergeField(old[f], new[f])]

\* The per-app data cache: the fields of an entry.  A field is Absent while
\* the entry has no such key, and Undefined when the key holds undefined.
CacheFields == {"html", "url", "toolInfo", "height", "width", "arguments", "result", "isComplete"}
NoData == [f \in CacheFields |-> Absent]
ProxyUrl == "proxy|" \o Resource

InitChat ==
    [ steps           |-> [id \in StepIds |-> NoStep],
      updates         |-> 0,                            \* step_update messages received
      stepIdToAppId   |-> [id \in StepIds |-> NoApp],
      mcpAppDataCache |-> [a \in Apps |-> NoData],
      resolving       |-> {},                           \* handlers awaiting getResource
      dispatched      |-> <<>>,                         \* history: the updates dispatched, in order
      forwarded       |-> <<>> ]                        \* history: the updates handed to an app, in order

\* The provider's refs and reducer state the step_update branch works on.
World(ch, x, m) == [chat |-> ch, exec |-> x, mcp |-> m]

Given(v) == v \notin {Absent, Undefined}

\* A property read: undefined when the object has no such key.
Read(v) == IF v = Absent THEN Undefined ELSE v

\* { ...existing, ...data }: every key of data, also one that holds
\* undefined, replaces the key of existing.
updateMcpAppDataCache(ch, appId, data) ==
    [ch EXCEPT !.mcpAppDataCache[appId] =
                   [f \in CacheFields |-> IF data[f] = Absent THEN @[f] ELSE data[f]]]

NeedsResource(rawStep) ==
    /\ rawStep.canvas # NoCanvas
    /\ rawStep.canvas.canvasData.url = Resource
    /\ rawStep.canvas.canvasData.html = Absent

\* The synchronous part of the step_update branch: the associations of
\* the tool name and of the step id with the app of the canvas.
stepUpdateReceived(w, rawStep) ==
    LET appId    == Read(rawStep.canvas.canvasId)
        toolName == Read(rawStep.toolName)
        hasApp   == rawStep.canvas # NoCanvas /\ Truthy(appId)
    IN  [w EXCEPT !.exec = IF hasApp /\ Truthy(toolName)
                           THEN stepUpdateAssociates(@, toolName, appId) ELSE @,
                  !.chat.stepIdToAppId = IF hasApp /\ Truthy(Read(rawStep.stepId))
                                         THEN [@ EXCEPT ![rawStep.stepId] = appId] ELSE @,
                  !.chat.updates = @ + 1]

\* The app a dispatched step is forwarded to.
appIdOf(w, s) ==
    LET appIdFromCanvas   == Read(s.canvas.canvasId)
        appIdFromStepId   == IF Truthy(Read(s.stepId)) THEN w.chat.stepIdToAppId[s.stepId]
                             ELSE NoApp
        appIdFromToolName == IF Read(s.toolName) \in ToolKeys
                             THEN w.exec.activeAppByTool[s.toolName] ELSE NoApp
    IN  IF Truthy(appIdFromCanvas) THEN appIdFromCanvas
        ELSE IF appIdFromStepId # NoApp THEN appIdFromStepId
        ELSE appIdFromToolName

\* The rest of the branch, an async function: after the resource of a
\* ui:// canvas url, if one was awaited, the html is cached, the step is
\* dispatched to the reducer, the cache takes the tool data of the step and
\* the step goes to the callback of its app or to the app's queue, with the
\* legacy event beside it.  n is the rank of the message among those received.
stepUpdateResolved(w, n, rawStep, resource) ==
    LET toStore  == stepToDispatch(rawStep, resource)
        toolName == Read(rawStep.toolName)
        resolved == NeedsResource(rawStep) /\ resource # NoHtml
        appIdForCache == Read(rawStep.canvas.canvasId)
        w1 == IF resolved /\ Truthy(appIdForCache)
              THEN [w EXCEPT !.chat = updateMcpAppDataCache(@, appIdForCache,
                        [NoData EXCEPT !.html = resource,
                                       !.url = ProxyUrl,
                                       !.toolInfo = toolName,
                                       !.height = Read(rawStep.canvas.canvasData.height),
                                       !.width = Read(rawStep.canvas.canvasData.width)])]
              ELSE w
        w2 == [w1 EXCEPT !.chat.steps[rawStep.stepId] = mergeStep(@, toStore),
                         !.chat.dispatched = Append(@, n)]
        appId == appIdOf(w2, toStore)
        w3 == [w2 EXCEPT !.chat = updateMcpAppDataCache(@, appId,
                        [NoData EXCEPT !.arguments = IF Given(toStore.arguments) THEN toStore.arguments ELSE Absent,
                                       !.result = IF Given(toStore.result) THEN toStore.result ELSE Absent,
                                       !.isComplete = IF toStore.stepStatus = "complete" THEN "true" ELSE Absent,
                                       !.toolInfo = IF Truthy(toolName) THEN toolName ELSE Absent]),
                         !.chat.forwarded = Append(@, [n |-> n, app |-> appId])]
    IN  IF appId = NoApp THEN w2
        ELSE IF HasCallback(w3.exec, appId)
        THEN [w3 EXCEPT !.exec = Logged(@, <<Event("callback", n, "step_update", FALSE, appId, toStore.stepId)>>)]
        ELSE [w3 EXCEPT !.exec.pendingStepUpdates[appId] =
                            Append(@, Event("queue", n, "step_update", FALSE, appId, toStore.stepId)),
                        !.mcp = forwardEventToApp(@, appId)]

\* A step_update whose handler runs to its end before another message is
\* handled.
handleStepUpdate(w, rawStep, resource) ==
    stepUpdateResolved(stepUpdateReceived(w, rawStep), w.chat.updates + 1, rawStep, resource)

\* A step_update whose handler awaits getResource.
stepUpdateAwaits(w, rawStep) ==
    [stepUpdateReceived(w, rawStep) EXCEPT
         !.chat.resolving = @ \cup {[n |-> w.chat.updates + 1, rawStep |-> rawStep]}]

Here == World(chat, exec, mcp)

DoChat(call, update, w) ==
    /\ w.chat.updates <= MaxUpdates
    /\ BoundedMcp(w.mcp)
    /\ chat' = w.chat
    /\ exec' = [w.exec EXCEPT !.out = <<>>]
    /\ mcp' = w.mcp
    /\ step' = [op |-> "step_update",
                msg |-> [method |-> "-", id |-> NoId, call |-> call, update |-> update],
                out |-> w.exec.out]
    /\ UNCHANGED <<bridge, prov, reg, calc, headless>>

\* A step of the server that carries the canvas of app A.
ServerStepUpdate ==
    \E url \in {Resource, "https://app"}, html \in {Absent, "h0"}, resource \in {NoHtml, "h1"} :
        LET rawStep == [NoStep EXCEPT !.stepId = "s1", !.toolName = "render",
                                      !.canvas = Canvas("A", "mcp-app",
                                                        [NoCanvasData EXCEPT !.url = url,
                                                                             !.html = html])]
        IN  DoChat("server", rawStep, handleStepUpdate(Here, rawStep, resource))

\* A call of the tool's execution context, its update coming back as a
\* step_update message; a canvas it carries is the canvas of a modelled app.
ConnectorStepUpdate ==
    \E call \in ContextCalls, stepId \in {Undefined, "s1"}, canvasId \in {Undefined, "A"},
       value \in {"v1", "v2"} :
        LET update == toolExecContext(call, stepId, canvasId, value)
        IN  /\ update # NoStep
            /\ update.canvas = NoCanvas \/ update.canvas.canvasId \in Apps
            /\ DoChat(call, update, handleStepUpdate(Here, update, NoHtml))

\* A step of the server with a ui:// canvas url of app A, with or without
\* a tool name and a height: its handler stops at the await of getResource.
UiSteps ==
    { [NoStep EXCEPT !.stepId = "s1", !.toolName = toolName,
                     !.canvas = Canvas("A", "mcp-app",
                                       [NoCanvasData EXCEPT !.url = Resource, !.height = height])] :
          toolName \in {"render", Absent}, height \in {"400px", Absent} }

StepUpdateAwaits ==
    \E rawStep \in UiSteps : DoChat("awaits", rawStep, stepUpdateAwaits(Here, rawStep))

\* getResource settled, with the html of the resource or with a failure.
ResourceResolved ==
    \E r \in chat.resolving, resource \in {NoHtml, "h1"} :
        DoChat("resolved", r.rawStep,
               stepUpdateResolved([Here EXCEPT !.chat.resolving = @ \ {r}], r.n, r.rawStep, resource))

\* ------------------------------------------------ resource uri templates
\* A template and a uri are sequences of tokens: a one-character string, or
\* a placeholder {name} in a template.
Chars == {"a", "/", "?"}
ParamTokens == {"{p}", "{q}", "{path}"}

Atom(t, c) == [t |-> t, c |-> c, opt |-> FALSE]

\* new RegExp('^' + template.replace(/\{[^}]+\}/g, '(.+)') + '$'): every
\* placeholder becomes the group (.+); the other characters are the source
\* of the pattern unescaped, so ? makes the atom before it optional.
RECURSIVE regexPattern(_)
regexPattern(template) ==
    IF template = <<>> THEN <<>>
    ELSE LET front == regexPattern(SubSeq(template, 1, Len(template) - 1))
             last  == template[Len(template)]
         IN  IF last = "?" THEN [front EXCEPT ![Len(front)].opt = TRUE]
             ELSE IF last \in ParamTokens THEN Append(front, Atom("group", ""))
             ELSE Append(front, Atom("char", last))

paramNames(template) == SelectSeq(template, LAMBDA tok : tok \in ParamTokens)

\* The templates whose pattern is well formed and has no lazy quantifier.
WellFormed(template) ==
    \A i \in DOMAIN template : template[i] = "?" => i > 1 /\ template[i - 1] # "?"

\* RegExp matching with backtracking: a group takes the longest text that
\* lets the rest match; an optional atom is tried first and then skipped,
\* which leaves its group undefined.
NoMatch == [ok |-> FALSE, groups |-> <<>>]
NoGroup == [defined |-> FALSE, value |-> <<>>]
Group(value) == [defined |-> TRUE, value |-> value]

RECURSIVE Exec(_, _, _, _, _)
RECURSIVE ExecGroup(_, _, _, _, _, _)
Exec(atoms, k, uri, pos, groups) ==
    IF k > Len(atoms)
    THEN IF pos = Len(uri) + 1 THEN [ok |-> TRUE, groups |-> groups] ELSE NoMatch
    ELSE LET atom == atoms[k]
             take == IF atom.t = "char"
                     THEN IF pos <= Len(uri) /\ uri[pos] = atom.c
                          THEN Exec(atoms, k + 1, uri, pos + 1, groups)
                          ELSE NoMatch
                     ELSE ExecGroup(atoms, k, uri, pos, groups, Len(uri) - pos + 1)
             skip == Exec(atoms, k + 1, uri, pos,
                          IF atom.t = "group" THEN Append(groups, NoGroup) ELSE groups)
         IN  IF take.ok THEN take
             ELSE IF atom.opt THEN skip
             ELSE NoMatch

ExecGroup(atoms, k, uri, pos, groups, n) ==
    IF n < 1 THEN NoMatch
    ELSE LET rest == Exec(atoms, k + 1, uri, pos + n,
                          Append(groups, Group(SubSeq(uri, pos, pos + n - 1))))
         IN  IF rest.ok THEN rest ELSE ExecGroup(atoms, k, uri, pos, groups, n - 1)

RegExpMatch(uri, template) == Exec(regexPattern(template), 1, uri, 1, <<>>)

matchesUriTemplate(uri, template) == RegExpMatch(uri, template).ok

\* params[paramNames[i]] = match[i + 1]: a name that occurs twice keeps the
\* value of its last group.
extractUriParams(uri, template) ==
    LET names == paramNames(template)
        match == RegExpMatch(uri, template)
        Last(name) == CHOOSE i \in DOMAIN names :
                         names[i] = name /\ \A j \in DOMAIN names : names[j] = name => j <= i
    IN  IF match.ok
        THEN [name \in {names[i] : i \in DOMAIN names} |-> match.groups[Last(name)]]
        ELSE [name \in {} |-> NoGroup]

\* -------------------------------------------------------- pure functions
NoCalc == [fn |-> "-", in |-> <<>>, out |-> <<>>]

\* The function fn is applied to the input the initial state drew.
Pending == calc.fn = "-"

Calc(fn, out) ==
    /\ calc' = [calc EXCEPT !.fn = fn, !.out = out]
    /\ UNCHANGED <<bridge, prov, reg, exec, mcp, chat, headless, step>>

InitAll(urls, propses, inputs) ==
    /\ \E url \in urls, props \in propses : bridge = InitBridge(url, props)
    /\ prov = InitProv
    /\ reg = InitReg
    /\ exec = InitExec
    /\ mcp = InitMcp
    /\ chat = InitChat
    /\ headless = InitHeadless
    /\ \E in \in inputs : calc = [NoCalc EXCEPT !.in = in]
    /\ step = [op |-> "Init", msg |-> NoMsg, out |-> <<>>]

InitWith(urls, propses) == InitAll(urls, propses, {<<>>})

\* --------------------------------------------------- extractMcpAppData
\* The fields of a step extractMcpAppData reads; cdArguments and cdResult
\* are canvas.canvasData.arguments and canvas.canvasData.result.
NullData == [null |-> TRUE, mcpAppId |-> Undefined, arguments |-> Undefined, result |-> Undefined]

IsEmptyArguments(v) == ~Truthy(v) \/ v = "emptyobj"

IsMissingResult(v) == v = Undefined \/ v = "emptystr"

\* Faulty variant of extractMcpAppData: the step content is the fallback
\* result in every tool phase.
extractMcpAppDataAnyPhase(s) ==
    IF ~s.hasCanvas \/ ~Truthy(s.canvasId) THEN NullData
    ELSE LET fromStep   == s.stepToolArguments
             fromRaw    == IF IsEmptyArguments(fromStep) THEN parseMaybeJson(s.arguments)
                           ELSE fromStep
             fromCanvas == IF IsEmptyArguments(fromRaw) THEN parseMaybeJson(s.cdArguments)
                           ELSE fromRaw
             result     == IF IsMissingResult(s.stepToolResult) THEN parseMaybeJson(s.cdResult)
                           ELSE s.stepToolResult
             final      == IF IsMissingResult(result) /\ Truthy(s.content)
                           THEN parseMaybeJson(s.content)
                           ELSE result
         IN  [null |-> FALSE, mcpAppId |-> s.canvasId, arguments |-> fromCanvas, result |-> final]

extractMcpAppData(s) ==
    IF ~s.hasCanvas \/ ~Truthy(s.canvasId) THEN NullData
    ELSE LET fromStep   == s.stepToolArguments
             fromRaw    == IF IsEmptyArguments(fromStep) THEN parseMaybeJson(s.arguments)
                           ELSE fromStep
             fromCanvas == IF IsEmptyArguments(fromRaw) THEN parseMaybeJson(s.cdArguments)
                           ELSE fromRaw
             result     == IF IsMissingResult(s.stepToolResult) THEN parseMaybeJson(s.cdResult)
                           ELSE s.stepToolResult
             toolPhase  == Or(s.stepToolPhase, s.toolPhase)
             final      == IF /\ IsMissingResult(result)
                              /\ toolPhase = "complete"
                              /\ Truthy(s.content)
                           THEN parseMaybeJson(s.content)
                           ELSE result
         IN  [null |-> FALSE, mcpAppId |-> s.canvasId, arguments |-> fromCanvas, result |-> final]

\* The steps extractMcpAppData is applied to.
StepInputs ==
    [hasCanvas         : BOOLEAN,
     canvasId          : {Undefined, "A"},
     stepToolArguments : {Undefined, "emptyobj", "obj", "text"},
     arguments         : {Undefined, "json", "jsonempty", "text"},
     cdArguments       : {Undefined, "emptyobj", "obj", "json"},
     stepToolResult    : {Undefined, "emptystr", "null", "obj"},
     cdResult          : {Undefined, "emptystr", "json", "text"},
     stepToolPhase     : {Undefined, "executing", "complete"},
     toolPhase         : {Undefined, "executing", "complete"},
     content           : {Undefined, "emptystr", "json", "text"}]

ExtractMcpAppData ==
    /\ Pending
    /\ Calc("extractMcpAppData", extractMcpAppData(calc.in))

ParseMaybeJson ==
    /\ Pending
    /\ Calc("parseMaybeJson", parseMaybeJson(calc.in.arguments))

\* The uris and templates of the resource requests.
RECURSIVE SeqsUpTo(_, _)
SeqsUpTo(S, n) ==
    IF n = 0 THEN {<<>>}
    ELSE LET shorter == SeqsUpTo(S, n - 1)
         IN  shorter \cup {Append(q, x) : q \in shorter, x \in S}

FileTemplate == <<"r", "e", "s", ":", "/", "/", "f", "i", "l", "e", "/", "{path}">>
FilePath == <<"a", "/", "b", "/", "c", ".", "t", "x", "t">>
FileUri == SubSeq(FileTemplate, 1, 11) \o FilePath

UriInputs ==
    {[uri |-> u, template |-> t] :
        u \in SeqsUpTo(Chars, MaxUri),
        t \in {x \in SeqsUpTo(Chars \cup {"{p}", "{q}"}, MaxTemplate) : x # <<>> /\ WellFormed(x)}}
    \cup {[uri |-> FileUri, template |-> FileTemplate]}

\* handleGetResource on a dynamic resource: the parameters are extracted
\* when the uri matches the template.
HandleGetResource ==
    /\ Pending
    /\ LET uri == calc.in.uri
           template == calc.in.template
           matches == matchesUriTemplate(uri, template)
       IN  Calc("handleGetResource",
                [matches |-> matches,
                 params |-> IF matches THEN extractUriParams(uri, template)
                            ELSE [name \in {} |-> NoGroup]])

ExtractUriParams ==
    /\ Pending
    /\ Calc("extractUriParams",
            [matches |-> matchesUriTemplate(calc.in.uri, calc.in.template),
             params |-> extractUriParams(calc.in.uri, calc.in.template)])

\* ------------------------------------------------------------ Spec
\* The handshake and the notification queue of a bridge whose url prop stays.
Init == InitWith({"u1"}, BridgeProps)

Next ==
    \/ Render(bridge.url)
    \/ IframeLoad
    \/ SendToolNotification
    \/ RetryTimer
    \/ InitTimeout
    \/ RecvClientReady(NoId)
    \/ RecvInitialized(NoId)
    \/ RecvLegacyInitialize(NoId)

Spec == Init /\ [][Next]_vars

\* ------------------------------------------------------------ SpecNotif
\* The tool-notification registry of the provider.
NextNotif ==
    \/ SendToolNotificationToApp
    \/ BroadcastToolNotification
    \/ RegisterToolNotificationSender
    \/ UnregisterToolNotificationSender

InitNotif == InitWith({"u1"}, {CHOOSE props \in BridgeProps : props.html})

SpecNotif == InitNotif /\ [][NextNotif]_vars

\* ------------------------------------------------------------ SpecRequests
\* The outbound requests of one bridge: created by the initialize attempts,
\* settled by responses, timeouts and the unmount.
RequestProps == {p \in BridgeProps : p.toolName = Undefined}

InitRequests == InitWith({"u1"}, RequestProps)

NextRequests ==
    \/ Render(bridge.url)
    \/ IframeLoad
    \/ RetryTimer
    \/ \E id \in 1..MaxReq : RequestTimeout(id)
    \/ RecvResponse
    \/ RecvClientReady(NoId)
    \/ RecvInitialized(NoId)
    \/ Unmount

SpecRequests == InitRequests /\ [][NextRequests]_vars

\* ------------------------------------------------------------ SpecTimeouts
\* The requests of a bridge and of the app registry whose target never
\* responds. While timers are armed one of them fires; as the requests of a
\* run are finitely many, every armed timer then fires or is cleared.
NextTimeouts ==
    \/ Render(bridge.url)
    \/ IframeLoad
    \/ RetryTimer
    \/ \E id \in 1..MaxReq : RequestTimeout(id)
    \/ Unmount
    \/ RegisterApp("A")
    \/ UnregisterApp("A")
    \/ SendToApp("A")
    \/ \E id \in 1..MaxSend : SendToAppTimeout(id)

SpecTimeouts ==
    /\ InitRequests
    /\ [][NextTimeouts]_vars
    /\ WF_vars(\E id \in 1..MaxReq : RequestTimeout(id))
    /\ WF_vars(\E id \in 1..MaxSend : SendToAppTimeout(id))

\* ------------------------------------------------------------ SpecDispatch
\* The dispatch of the app's inbound messages, with and without an id.
NextDispatch ==
    \/ Render(bridge.url)
    \/ IframeLoad
    \/ InitTimeout
    \/ ToolCallSettles
    \/ ResolverSettles({"h1"})
    \/ \E id \in InIds \cup {NoId} :
          \/ RecvClientReady(id)
          \/ RecvSandboxReady(id)
          \/ RecvSandboxResource(id, {Undefined})
          \/ RecvOpenLink(id)
          \/ RecvToolsCall(id)
          \/ RecvUiMessage(id)
          \/ RecvSizeChange(id)
          \/ RecvUnknown(id)

SpecDispatch == InitRequests /\ [][NextDispatch]_vars

\* -------------------------------------------------------------- SpecStatus
\* The status of a bridge whose url prop changes and that is reset.
NextStatus ==
    \/ \E u \in Urls : Render(u)
    \/ IframeLoad
    \/ ResetIframe
    \/ ResetTimer
    \/ RetryTimer
    \/ InitTimeout
    \/ RecvInitialized(NoId)
    \/ RecvLegacyInitialize(NoId)

SpecStatus == InitRequests /\ [][NextStatus]_vars

\* --------------------------------------------------------------- SpecNoAck
\* A bridge whose app never acknowledges: no initialized notification, no
\* legacy ui/initialize request; its content stays and nobody resets it.
\* React commits the updates it has queued and an armed timer fires.
NextNoAck ==
    \/ Render(bridge.url)
    \/ IframeLoad
    \/ RetryTimer
    \/ InitTimeout
    \/ RecvClientReady(NoId)
    \/ \E id \in 1..MaxReq : RequestTimeout(id)

SpecNoAck ==
    /\ InitRequests
    /\ [][NextNoAck]_vars
    /\ WF_vars(Render(bridge.url))
    /\ WF_vars(InitTimeout)

\* ---------------------------------------------------------------- SpecSend
\* sendToolNotification in every status of the bridge, with and without the
\* iframe in the DOM.
NextSend ==
    \/ Render(bridge.url)
    \/ IframeLoad
    \/ SendToolNotification
    \/ InitTimeout
    \/ RecvInitialized(NoId)
    \/ RecvLegacyInitialize(NoId)

SpecSend == InitRequests /\ [][NextSend]_vars

\* ------------------------------------------------------------- SpecResolve
\* How a tool call finds its target app: step updates under plain and
\* prefixed tool names, model contexts with and without a name.
NextResolve ==
    \/ \E toolName \in ToolKeys : StepUpdate(toolName)
    \/ \E contextName \in {NoApp, ContextName} : ToolCall(contextName)
    \/ ToolThrows

SpecResolve == InitRequests /\ [][NextResolve]_vars

\* --------------------------------------------------------------- SpecTools
\* The tool calls of a model context without a name, their notifications
\* and their responses.
NextTools ==
    \/ \E toolName \in Tools : StepUpdate(toolName)
    \/ RegisterStepUpdateCallback
    \/ UnregisterStepUpdateCallback
    \/ ToolCall(NoApp)
    \/ ToolNotifies
    \/ ToolReturns
    \/ ToolThrows

SpecTools == InitRequests /\ [][NextTools]_vars

\* ------------------------------------------------------------ SpecRegistry
\* The app registry with both apps: registrations, re-registrations,
\* removals, requests and their timers.
NextRegistry ==
    \/ \E a \in Apps : RegisterApp(a)
    \/ \E a \in Apps : UnregisterApp(a)
    \/ \E a \in Apps : SendToApp(a)
    \/ \E id \in 1..MaxSend : SendToAppTimeout(id)

SpecRegistry == InitRequests /\ [][NextRegistry]_vars

\* ------------------------------------------------------------- SpecForeign
\* A bridge with its own app, beside the iframe of another bridge that posts
\* to the same host window.
NextForeign ==
    \/ Render(bridge.url)
    \/ IframeLoad
    \/ RetryTimer
    \/ \E id \in 1..MaxReq : RequestTimeout(id)
    \/ RecvClientReady(NoId)
    \/ RecvResponse
    \/ ForeignResponse
    \/ ForeignInitialized
    \/ ForeignOpenLink

SpecForeign == InitRequests /\ [][NextForeign]_vars

\* ------------------------------------------------------------- SpecSandbox
\* The sandbox-resource requests of the proxy for two flow ids, on bridges
\* with and without inline html, with a resolver that may return different
\* html on each call.
NextSandbox ==
    \/ Render(bridge.url)
    \/ RecvSandboxResource(NoId, FlowIds)
    \/ ResolverSettles(Htmls)

SpecSandbox == Init /\ [][NextSandbox]_vars

\* ---------------------------------------------------------------- SpecMcp
\* Registrations, removals and forwarded events of both app ids.
NextPartial ==
    \/ Render(bridge.url)
    \/ IframeLoad
    \/ RecvClientReady(NoId)
    \/ RecvInitialized(NoId)
    \/ NotifyToolInputPartial
    \/ SendStepUpdate

SpecPartial == InitRequests /\ [][NextPartial]_vars

\* -------------------------------------------------------------- SpecMcp

NextUri ==
    \/ HandleGetResource
    \/ ExtractUriParams

InitUri == InitAll({"u1"}, {CHOOSE props \in BridgeProps : props.html}, UriInputs)

SpecUri == InitUri /\ [][NextUri]_vars

NextExtract ==
    \/ ExtractMcpAppData
    \/ ParseMaybeJson

InitExtract == InitAll({"u1"}, {CHOOSE props \in BridgeProps : props.html}, StepInputs)

SpecExtract == InitExtract /\ [][NextExtract]_vars

\* ------------------------------------------------------------ SpecRetry
\* The retry sequences of one bridge, followed up to MaxRetryReq requests.
NextRetry ==
    \/ Render(bridge.url)
    \/ IframeLoad
    \/ RetryTimer
    \/ RecvClientReady(NoId)
    \/ RecvInitialized(NoId)

InitRetry ==
    /\ \E props \in RequestProps :
          bridge = [InitBridge("u1", props) EXCEPT !.requestLimit = MaxRetryReq]
    /\ prov = InitProv
    /\ reg = InitReg
    /\ exec = InitExec
    /\ mcp = InitMcp
    /\ chat = InitChat
    /\ headless = InitHeadless
    /\ calc = NoCalc
    /\ step = [op |-> "Init", msg |-> NoMsg, out |-> <<>>]

SpecRetry == InitRetry /\ [][NextRetry]_vars

NextMerge ==
    \/ ServerStepUpdate
    \/ ConnectorStepUpdate

SpecMerge == InitRequests /\ [][NextMerge]_vars

NextMcp ==
    \/ RegisterMcpApp
    \/ UnregisterMcpApp
    \/ ForwardEventToApp

SpecMcp == InitRequests /\ [][NextMcp]_vars

\* ================================================================ claims
IsRecv(s, method) == s.op = "Recv" /\ s.msg.method = method

\* A hydration message carries the tool of the bridge's toolInfo.
IsHydration(m) == m.t = "notification" /\ m.method \in {ToolInput, ToolResult} /\ "tool" \in DOMAIN m.body

\* What a step that handles `initialized` has to post and leave behind: the
\* hydration messages (tool-input before tool-result), then the queue as it
\* was, in order, each entry once; no retry timer armed; the queue empty.
FlushedOnInitialized ==
    LET queue == bridge.pendingNotifications
        out == step'.out
        h == Len(out) - Len(queue)
    IN /\ bridge'.initializeTimer # "armed"
       /\ h >= 0
       /\ \A i \in 1..Len(queue) : out[h + i] = Notification(queue[i].method, queue[i].params)
       /\ \A i \in 1..h : IsHydration(out[i])
       /\ \A i, j \in 1..h : i < j => ~(out[i].method = ToolResult /\ out[j].method = ToolInput)
       /\ bridge'.pendingNotifications = <<>>

\* C1: a step that handles ui/notifications/initialized cancels the retry
\* timer, posts the hydration messages first (tool-input before tool-result),
\* then every notification of the pending queue, once each and in enqueue
\* order, and leaves the pending queue empty.
C1_InitializedFlushesQueue ==
    [][IsRecv(step', "ui/notifications/initialized") => FlushedOnInitialized]_vars

\* The same, for the steps taken while the iframe's content window exists.
C1_FlushesQueueWithWindow ==
    [][IsRecv(step', "ui/notifications/initialized") /\ bridge.hasWindow => FlushedOnInitialized]_vars

\* ------------------------------------------------------ provider registry
CallsOf(n) == SelectSeq(prov.log, LAMBDA c : c.n = n)
IndexInLog(n) == CHOOSE i \in 1..Len(prov.log) : prov.log[i].n = n
QueuedFor(a) == {n \in 1..prov.nextNotif : prov.sent[n].kind = "app" /\ prov.sent[n].target = a /\ prov.sent[n].queued}
QueuedBroadcasts == {n \in 1..prov.nextNotif : prov.sent[n].kind = "broadcast" /\ prov.sent[n].queued}
InSeq(x, q) == \E i \in 1..Len(q) : q[i] = x

\* C2: the notifications sent to an app id while it has no sender are passed
\* to the sender of the next registration of that app id, once each and in
\* the order they were sent; until then they stay queued, afterwards the
\* queue holds none of them and a later registration gets none of them.
C2_QueuedReplayedOnceInOrder ==
    \A a \in Apps :
        /\ \A n \in QueuedFor(a) :
              LET regs == SelectSeq(prov.regsSince[n], LAMBDA r : r.app = a)
              IN IF regs = <<>>
                 THEN CallsOf(n) = <<>> /\ InSeq(n, prov.pendingToolNotifications[a])
                 ELSE CallsOf(n) = <<Call(a, regs[1].sender, n)>>
                      /\ ~InSeq(n, prov.pendingToolNotifications[a])
        /\ \A n, m \in QueuedFor(a) :
              n < m /\ CallsOf(n) # <<>> /\ CallsOf(m) # <<>> => IndexInLog(n) < IndexInLog(m)

C2_Witness ==
    \E a \in Apps : \E n, m \in QueuedFor(a) :
        /\ n < m
        /\ CallsOf(n) # <<>> /\ CallsOf(m) # <<>>
        /\ prov.log[IndexInLog(n)].sender = prov.log[IndexInLog(m)].sender
        /\ Len(SelectSeq(prov.regsSince[m], LAMBDA r : r.app = a)) = 2

\* C3: a broadcast notification queued because no sender was registered is
\* passed to the sender of the first registration after it, once, and to no
\* sender registered later.
C3_BroadcastConsumedByFirst ==
    \A n \in QueuedBroadcasts :
        IF prov.regsSince[n] = <<>>
        THEN CallsOf(n) = <<>> /\ InSeq(n, prov.pendingBroadcastNotifications)
        ELSE CallsOf(n) = <<Call(prov.regsSince[n][1].app, prov.regsSince[n][1].sender, n)>>
             /\ ~InSeq(n, prov.pendingBroadcastNotifications)

C3_Witness ==
    \E n \in QueuedBroadcasts :
        /\ Len(prov.regsSince[n]) = 2
        /\ prov.regsSince[n][1].app # prov.regsSince[n][2].app
        /\ Len(CallsOf(n)) = 1

\* ------------------------------------------------------- outbound requests
Created == 1..bridge.nextRequestId

\* C4: every request id sendRequest has created is either pending (in the
\* map, its timer armed, not settled) or settled exactly once and out of the
\* map with its timer gone; an id not yet created is neither.
C4_SettledExactlyOnce ==
    /\ bridge.pendingRequests \subseteq Created
    /\ \A id \in 1..MaxReq :
          \/ id \in bridge.pendingRequests /\ id \in bridge.reqTimers /\ bridge.settled[id] = <<>>
          \/ id \notin bridge.pendingRequests /\ id \notin bridge.reqTimers
                /\ Len(bridge.settled[id]) = (IF id \in Created THEN 1 ELSE 0)

C4_Witness ==
    /\ bridge.nextRequestId = MaxReq
    /\ {bridge.settled[id] : id \in 1..MaxReq} = {<<"response">>, <<"timeout">>, <<"unmount">>}

RegPending(id) == id \in DOMAIN reg.requests /\ reg.requests[id].settled = <<>>
RegSettled(id) == id \in DOMAIN reg.requests /\ reg.requests[id].settled # <<>>

\* C5: a request of the bridge's sendRequest, or of the registry's sendToApp,
\* that gets no response does not stay pending: it is eventually rejected
\* (by its timeout, unless the unmount or unregisterApp rejected it before).
C5_UnansweredRequestsSettle ==
    /\ \A id \in 1..MaxReq :
          (id \in bridge.pendingRequests) ~> (id \notin bridge.pendingRequests /\ Len(bridge.settled[id]) = 1)
    /\ \A id \in 1..MaxSend :
          RegPending(id) ~> RegSettled(id)

C5_Witness ==
    /\ \E id \in 1..MaxReq : bridge.settled[id] = <<"timeout">>
    /\ \E id \in DOMAIN reg.requests :
          /\ reg.requests[id].settled = <<"timeout">>
          /\ ~reg.requests[id].current
          /\ reg.registeredApps[reg.requests[id].app]

\* ---------------------------------------------------------- inbound ids
RequestMethods ==
    {"ui/open-link", "tools/call", "ui/message", "ui/requests/sandbox-resource",
     "ui/notifications/client-ready", "ui/notifications/sandbox-ready", "unknown/method"}

ResponsesTo(out, id) ==
    Cardinality({i \in 1..Len(out) : out[i].t \in {"result", "error"} /\ out[i].id = id})

\* C6: an inbound message with a method and an id gets exactly one response
\* envelope with that id: in the step that handles it or, for a tools/call
\* handed to the host callback, in the step where the callback settles.
C6_OneResponsePerRequest ==
    [][ /\ step'.op = "Recv" /\ step'.msg.id # NoId /\ step'.msg.method \in RequestMethods =>
              IF step'.msg.id \in bridge'.pendingToolCalls
              THEN ResponsesTo(step'.out, step'.msg.id) = 0
              ELSE ResponsesTo(step'.out, step'.msg.id) = 1
        /\ step'.op = "ToolCallSettles" => ResponsesTo(step'.out, step'.msg.id) = 1
      ]_vars

\* ------------------------------------------------------------------ status
StatusChanges == bridge'.iframeState # bridge.iframeState

IsAck(s) == IsRecv(s, "ui/notifications/initialized")

ResetsToIdle ==
    /\ bridge'.iframeState = "idle"
    /\ step'.op \in {"InitTimeout", "ResetIframe", "Render"}

\* C7 as stated: loading only from idle on the load event, initializing only
\* from loading, ready only from initializing on an initialized
\* acknowledgment, and the resets to idle.
C7_OnlyTheChain ==
    [][ StatusChanges =>
          \/ bridge.iframeState = "idle" /\ bridge'.iframeState = "loading" /\ step'.op = "IframeLoad"
          \/ bridge.iframeState = "loading" /\ bridge'.iframeState = "initializing"
          \/ bridge.iframeState = "initializing" /\ bridge'.iframeState = "ready" /\ IsAck(step')
          \/ ResetsToIdle
      ]_vars

\* C7, amended: loading is entered only from idle on the load event and
\* initializing only from loading, by the commit that rendered loading; ready
\* is entered from any status, by an initialized acknowledgment or by the
\* app's legacy ui/initialize request; idle is entered by the initialization
\* timeout, by resetIframe and by the commit of a content change.
C7_StatusTransitions ==
    [][ StatusChanges =>
          \/ bridge.iframeState = "idle" /\ bridge'.iframeState = "loading" /\ step'.op = "IframeLoad"
          \/ bridge.iframeState = "loading" /\ bridge'.iframeState = "initializing" /\ step'.op = "Render"
          \/ bridge'.iframeState = "ready" /\ (IsAck(step') \/ IsRecv(step', "ui/initialize"))
          \/ ResetsToIdle
      ]_vars

C7_Witness ==
    /\ IsAck(step)
    /\ bridge.iframeState = "ready"
    /\ bridge.iframeStateRef = "idle"

ContentKeyChanges == step'.op = "Render" /\ ContentKey(bridge'.url) # bridge.renderedContentKeyRef

\* C8 as stated: a bridge with initFailed set keeps it set, and does not
\* become ready, in every step but resetIframe and a content key change.
C8_FailedUntilReset ==
    [][ bridge.initFailed =>
          \/ bridge'.initFailed /\ bridge'.iframeState # "ready"
          \/ step'.op = "ResetIframe"
          \/ ContentKeyChanges
      ]_vars

\* C8, amended: a bridge with initFailed set keeps it set, and does not
\* become ready, until resetIframe is called, the content key changes, or
\* the app's late initialized acknowledgment (or legacy ui/initialize
\* request) makes the bridge ready; the commit of ready clears initFailed.
C8_FailedUntilResetOrReady ==
    [][ bridge.initFailed =>
          \/ bridge'.initFailed /\ bridge'.iframeState # "ready"
          \/ step'.op = "ResetIframe"
          \/ ContentKeyChanges
          \/ bridge'.initFailed /\ (IsAck(step') \/ IsRecv(step', "ui/initialize"))
          \/ bridge.iframeState = "ready"
      ]_vars

C8_Witness ==
    /\ bridge.initFailed
    /\ bridge.iframeState = "ready"
    /\ ~bridge.hasWindow
    /\ IsAck(step)

\* C9: a bridge in initializing whose app never acknowledges leaves
\* initializing, with initFailed set and an error message.
C9_InitializingTimesOut ==
    (bridge.iframeState = "initializing")
        ~> (bridge.iframeState # "initializing" /\ bridge.initFailed /\ bridge.initError # "null")

C9_Witness ==
    /\ step.op = "InitTimeout"
    /\ bridge.iframeState = "idle"
    /\ bridge.initFailed
    /\ bridge.initError # "null"

\* What the bridge owes the iframe when it handles `initialized`.
HydrationDue(b) == IF b.props.toolName = Undefined THEN <<>> ELSE HydrationMessages(b.props)

\* C10: a client-ready posts no hydration data and replays nothing (it posts
\* ui/initialize requests only and leaves the pending queue as it is); the
\* initialized handled after it posts the hydration data once and every
\* queued notification once.
C10_ClientReadyThenInitialized ==
    [][ /\ IsRecv(step', "ui/notifications/client-ready") =>
              /\ \A i \in 1..Len(step'.out) : step'.out[i].t = "request"
              /\ bridge'.pendingNotifications = bridge.pendingNotifications
        /\ IsRecv(step, "ui/notifications/client-ready") /\ IsRecv(step', "ui/notifications/initialized") =>
              step'.out = HydrationDue(bridge) \o ReplayQueued(bridge.pendingNotifications)
      ]_vars

\* --------------------------------------------------------------- hydration
BecomesReady == bridge.iframeState # "ready" /\ bridge'.iframeState = "ready"

HydrationsIn(out, method) ==
    SelectSeq(out, LAMBDA m : IsHydration(m) /\ m.method = method)

ArgumentsSupplied(props) == props.toolArguments \in {"obj", "json"}
ResultSupplied(props) == props.toolResult \notin {Undefined, "null", "emptystr"}

\* C11: the step that makes a bridge with a tool name ready posts one
\* tool-input when the arguments are a non-empty object and none otherwise;
\* one tool-result carrying the result when one was supplied, else one
\* synthetic completed result when isComplete and none when not; and the
\* tool-result after the tool-input.
C11_HydrationOnReady ==
    [][ BecomesReady /\ bridge.props.toolName # Undefined =>
          LET props == bridge.props
              inputs == HydrationsIn(step'.out, ToolInput)
              results == HydrationsIn(step'.out, ToolResult)
          IN /\ Len(inputs) = (IF ArgumentsSupplied(props) THEN 1 ELSE 0)
             /\ Len(results) = (IF ResultSupplied(props) \/ props.isComplete THEN 1 ELSE 0)
             /\ \A i \in 1..Len(results) :
                   results[i].body.result =
                       (IF ResultSupplied(props) THEN parseMaybeJson(props.toolResult) ELSE "completed")
             /\ \A i, j \in 1..Len(step'.out) :
                   /\ IsHydration(step'.out[i]) /\ step'.out[i].method = ToolResult
                   /\ IsHydration(step'.out[j]) /\ step'.out[j].method = ToolInput
                   => j < i
      ]_vars

\* ------------------------------------------------------ sendToolNotification
IsSend(s) == s.op = "SendToolNotification"

\* The payloads the claim calls invalid: a result that is undefined or the
\* empty string; arguments that are missing, not an object, or empty.
InvalidPayload(method, params) ==
    IF method = ToolResult
    THEN params.result \in {Undefined, "emptystr"}
    ELSE params.arguments \in {Undefined, "null"} \cup {"emptystr", "json", "text"} \cup {"emptyobj"}

\* C12: a sendToolNotification call with an invalid payload posts nothing
\* and leaves the pending queue as it is, in every bridge state.
C12_InvalidPayloadDropped ==
    [][ IsSend(step') /\ InvalidPayload(step'.msg.method, step'.msg.params) =>
          /\ step'.out = <<>>
          /\ bridge'.pendingNotifications = bridge.pendingNotifications
      ]_vars

C12_Witness ==
    /\ IsSend(step)
    /\ InvalidPayload(step.msg.method, step.msg.params)
    /\ step.msg.method = ToolInput /\ step.msg.params.arguments = "emptyobj"
    /\ bridge.iframeStateRef = "ready" /\ bridge.hasWindow
    /\ bridge.pendingNotifications = <<>>

\* The status the hook returned from its last render.
Status == bridge.iframeStateRef

SentNotification(s) == Notification(s.msg.method, s.msg.params)

\* C13: a sendToolNotification call with a valid payload posts the
\* notification at once, and queues nothing, exactly when the bridge is
\* ready; in every other status it posts nothing and appends the
\* notification to the pending queue.
C13_PostedIffReady ==
    [][ IsSend(step') /\ ~InvalidPayload(step'.msg.method, step'.msg.params) =>
          IF Status = "ready"
          THEN /\ step'.out = <<SentNotification(step')>>
               /\ bridge'.pendingNotifications = bridge.pendingNotifications
          ELSE /\ step'.out = <<>>
               /\ bridge'.pendingNotifications =
                     Append(bridge.pendingNotifications,
                            [method |-> step'.msg.method, params |-> step'.msg.params])
      ]_vars

\* ---------------------------------------------------------------- C14
IsToolCall == step'.op = "tool_call" /\ Len(exec'.calls) = Len(exec.calls) + 1
NewCall == exec'.calls[Len(exec'.calls)]
Accepted(call) == call.state = "executing"

\* The target the precedence of the claim gives, with "most recently
\* associated" read from the history of the step updates.
PrecedenceTarget(call) ==
    IF call.targetAppId # NoApp THEN call.targetAppId
    ELSE IF exec.lastAssociated[call.toolName] # NoApp
         THEN exec.lastAssociated[call.toolName]
    ELSE IF call.contextName # NoApp
            /\ exec.lastAssociated[Prefixed(call.contextName, call.toolName)] # NoApp
         THEN exec.lastAssociated[Prefixed(call.contextName, call.toolName)]
    ELSE Broadcast

\* C14: executeToolCall resolves the target of a tool's notifications in this
\* order: the explicit target app id; else the app most recently associated
\* with the tool name; else the app associated with the tool name prefixed by
\* the name of the model context; else no app, and the notifications are
\* broadcast to every registered step-update callback.
C14_TargetPrecedence ==
    [][IsToolCall /\ Accepted(NewCall) => NewCall.resolvedAppId = PrecedenceTarget(NewCall)]_vars

\* A call without an explicit target and without an app for the plain tool
\* name was resolved by the prefixed name.
C14_Witness ==
    \E id \in DOMAIN exec.calls :
        /\ Accepted(exec.calls[id])
        /\ exec.calls[id].targetAppId = NoApp
        /\ exec.lastAssociated[exec.calls[id].toolName] = NoApp
        /\ exec.calls[id].resolvedAppId \in Apps

\* ---------------------------------------------------------------- C15
IsNotifying == step'.op \in {"toolNotifies", "toolReturns"}
Delivered(e) == e.t \in {"callback", "queue"}
DeliveriesOf(out) == SelectSeq(out, Delivered)

\* Every step update of the step went to app a alone: to its callback when
\* it has one, else to the end of its queue; no other queue changed.
RoutedOnlyTo(a) ==
    LET sent == DeliveriesOf(step'.out)
    IN  /\ \A i \in DOMAIN sent :
              /\ sent[i].app = a
              /\ sent[i].t = IF HasCallback(exec, a) THEN "callback" ELSE "queue"
        /\ exec'.pendingStepUpdates =
               [exec.pendingStepUpdates EXCEPT
                    ![a] = @ \o SelectSeq(sent, LAMBDA e : e.t = "queue")]

UntargetedCalls(x) ==
    {id \in DOMAIN x.calls : x.calls[id].state = "executing" /\ x.calls[id].targetAppId = NoApp}

\* The claim as written: with A associated with the tool before B, the
\* notifications of a call without an explicit target go to A.
C15_FirstAssociatedReceives ==
    [][IsNotifying =>
          \A i \in DOMAIN DeliveriesOf(step'.out) :
              LET e == DeliveriesOf(step'.out)[i]
              IN  e.call \in UntargetedCalls(exec) /\ exec.calls[e.call].resolvedAppId # Broadcast
                     => e.app = exec.firstAssociated[exec.calls[e.call].toolName]]_vars

\* C15 (amended): the app recorded as active for a tool is the one most
\* recently associated with it, whichever app was associated first.  A tool
\* call without an explicit target made while app A is recorded as active
\* routes every notification of the call, partials and the result, to A's
\* callback, or to A's queue while A has no callback, and none to another app.
C15_ActiveAppReceives ==
    [][/\ IsToolCall /\ Accepted(NewCall) /\ NewCall.targetAppId = NoApp
             /\ exec.lastAssociated[NewCall.toolName] # NoApp
          => NewCall.resolvedAppId = exec.lastAssociated[NewCall.toolName]
       /\ IsNotifying =>
             \A id \in UntargetedCalls(exec) :
                 /\ exec.calls[id].resolvedAppId # Broadcast
                 /\ \E i \in DOMAIN step'.out : step'.out[i].call = id
                 => RoutedOnlyTo(exec.calls[id].resolvedAppId)]_vars

\* A call without a target has just notified the app associated last, which
\* is not the app associated first.
C15_Witness ==
    /\ step.op = "toolNotifies"
    /\ \E i \in DOMAIN step.out :
          LET e == step.out[i]
          IN  /\ Delivered(e)
              /\ e.call \in UntargetedCalls(exec)
              /\ e.app = exec.calls[e.call].resolvedAppId
              /\ e.app = exec.lastAssociated["render"]
              /\ exec.firstAssociated["render"] \notin {NoApp, e.app}

\* ---------------------------------------------------------------- C16
\* The calls of notifyToolResult the provider made itself in a step.
AutomaticResults(out) ==
    SelectSeq(out, LAMBDA e : e.t = "notify" /\ e.kind = "result" /\ e.auto)

Responses(out) == SelectSeq(out, LAMBDA e : e.t = "tool_response")

\* C16: for every tool invocation whose execute function returns, the host
\* itself emits exactly one notifyToolResult carrying the returned value, in
\* the step in which execute returned and so after every notification the
\* tool sent while it executed; when execute throws, no result notification
\* is emitted.
C16_OneResultNotification ==
    [][/\ step'.op = "toolReturns" =>
             /\ Len(AutomaticResults(step'.out)) = 1
             /\ \A i \in DOMAIN Responses(step'.out) :
                    Responses(step'.out)[i].kind = "result"
                       => AutomaticResults(step'.out)[1].value = Responses(step'.out)[i].value
       /\ step'.op = "toolThrows" => AutomaticResults(step'.out) = <<>>
       /\ step'.op = "toolNotifies" =>
             \A i \in DOMAIN step'.out : exec'.calls[step'.out[i].call].state = "executing"]_vars

\* ---------------------------------------------------------------- C17
\* The calls a step answered: those executing before it, or received by it,
\* that are not executing after it.
AnsweredBy(x, y) ==
    {id \in DOMAIN y.calls :
        /\ y.calls[id].state # "executing"
        /\ id \in DOMAIN x.calls => x.calls[id].state = "executing"}

ResponseKind(state) == IF state = "returned" THEN "result" ELSE "error"

\* C17: every tool_call message handled by the chat provider produces
\* exactly one tool_response with the same requestId: it carries the result
\* when the tool returns, and an error when the tool throws, when the tool is
\* not found, or when no model context is available.
C17_OneResponsePerToolCall ==
    [][/\ \A id \in AnsweredBy(exec, exec') :
             \E i \in DOMAIN Responses(step'.out) :
                 /\ Responses(step'.out)[i].call = id
                 /\ Responses(step'.out)[i].kind = ResponseKind(exec'.calls[id].state)
                 /\ \A j \in DOMAIN Responses(step'.out) :
                        Responses(step'.out)[j].call = id => j = i
       /\ \A i \in DOMAIN Responses(step'.out) :
             Responses(step'.out)[i].call \in AnsweredBy(exec, exec')
       /\ step'.op = "toolReturns" =>
             \A i \in DOMAIN Responses(step'.out) : Responses(step'.out)[i].kind = "result"
       /\ step'.op \in {"toolThrows", "tool_call"} =>
             \A i \in DOMAIN Responses(step'.out) : Responses(step'.out)[i].kind = "error"]_vars

\* ---------------------------------------------------------------- C18
\* C18: a failure while sending a notification during a tool call is caught
\* and does not fail the tool call: whenever the tool's execute function
\* returns, the caller receives the tool's result, whether or not the
\* callback of an app threw.
C18_NotificationFailureCaught ==
    [][step'.op = "toolReturns" =>
          /\ Len(Responses(step'.out)) = 1
          /\ Responses(step'.out)[1].kind = "result"]_vars

\* ---------------------------------------------------------------- C19
PendingOf(r, a) == {id \in DOMAIN r.requests : r.requests[id].app = a /\ r.requests[id].settled = <<>>}

Unregisters(a) == reg.registeredApps[a] /\ ~reg'.registeredApps[a]

\* C19: unregisterApp(appId) rejects every request of that app that is still
\* pending at that moment and clears their timers, so that none of them is
\* settled a second time by a timeout; it removes the app from the registry;
\* the requests pending for other apps are unaffected.
C19_UnregisterRejectsPending ==
    [][\A a \in Apps :
          Unregisters(a) =>
              /\ \A id \in PendingOf(reg, a) :
                     /\ reg'.requests[id].settled = <<"unregistered">>
                     /\ ~reg'.requests[id].timer
              /\ \A id \in DOMAIN reg.requests :
                     reg.requests[id].app # a => reg'.requests[id] = reg.requests[id]]_vars

\* ---------------------------------------------------------------- C20
Reregisters(a) ==
    /\ reg.registeredApps[a] /\ reg'.registeredApps[a]
    /\ \E id \in DOMAIN reg.requests :
          reg.requests[id].app = a /\ reg.requests[id].current /\ ~reg'.requests[id].current

\* C20: re-registering an app id that is registered rejects at once every
\* request still pending for the replaced registration and clears its timer,
\* as the unmount of the component does.
C20_ReregisterRejectsPending ==
    [][\A a \in Apps :
          Reregisters(a) =>
              \A id \in PendingOf(reg, a) :
                  /\ reg'.requests[id].settled # <<>>
                  /\ ~reg'.requests[id].timer]_vars

\* ---------------------------------------------------------------- C21
StartedBridges(m, a) == {b \in DOMAIN m.bridges : m.bridges[b].app = a /\ m.bridges[b].started}

Registers == step'.op = "registerMcpApp" /\ Len(mcp'.bridges) = Len(mcp.bridges) + 1
Registered == mcp'.bridges[Len(mcp'.bridges)]

C22_TimeoutRejectsOnlyItsRequest ==
    [][step'.op = "RequestTimeout" =>
          LET id == step'.msg.id
          IN  /\ bridge'.settled[id] = <<"timeout">>
              /\ bridge'.pendingRequests = bridge.pendingRequests \ {id}
              /\ bridge'.reqTimers = bridge.reqTimers \ {id}
              /\ \A other \in bridge.pendingRequests \ {id} :
                     /\ other \in bridge'.reqTimers
                     /\ bridge'.settled[other] = <<>>]_vars

\* A request was resolved by its response after another request of the
\* same bridge, in flight at the same time, had timed out.
C22_Witness ==
    /\ step.op = "RecvResponse"
    /\ bridge.settled[step.msg.id] = <<"response">>
    /\ \E other \in 1..MaxReq :
          other > step.msg.id /\ bridge.settled[other] = <<"timeout">>

\* ---------------------------------------------------------------- C23
IsResourceRequest ==
    /\ step'.op = "Recv" /\ step'.msg.method = "ui/requests/sandbox-resource"
    /\ step'.msg.params.resource
RequestedFlow == step'.msg.params.flowId
RequestedKey == cacheKey(RequestedFlow, Resource)
ReadyPosted(flowId, html) == step'.out = <<ResourceReady(flowId, html)>>
ResolverCalled(key) == bridge'.resolving[key] = bridge.resolving[key] + 1
NothingResolved ==
    /\ bridge'.resolving = bridge.resolving
    /\ bridge'.sandboxResourceCache = bridge.sandboxResourceCache

IsForeign == step'.op = "RecvForeign"

\* C24: a response from the iframe of another bridge never resolves or
\* rejects a pending request of this bridge, also when it carries a request
\* id that this bridge has issued: the pending-request map, the timers and
\* the settled promises are as before.
C24_ForeignResponseIgnored ==
    [][IsForeign /\ step'.msg.method = "-" =>
          /\ bridge'.pendingRequests = bridge.pendingRequests
          /\ bridge'.reqTimers = bridge.reqTimers
          /\ bridge'.settled = bridge.settled]_vars

\* ---------------------------------------------------------------- C25
\* C25: a bridge acts only on messages whose source window is its own
\* iframe: an initialized notification or a request posted by the iframe of
\* another bridge leaves this bridge's state as it is, in particular not
\* ready, and the bridge posts nothing.
C25_ForeignMessageIgnored ==
    [][IsForeign /\ step'.msg.method # "-" =>
          /\ bridge' = bridge
          /\ step'.out = <<>>]_vars

\* ---------------------------------------------------------------- C26
\* C26: an initialization failure is recoverable.  resetIframe clears
\* initFailed and the error and returns the bridge to idle with the iframe
\* src set again to the url, by the content effect of the reset's commit or
\* by the zero-delay timer of the reset; after the reset of a failed bridge
\* the iframe load takes idle to loading, the initialized acknowledgment
\* makes the bridge ready, and the recovered bridge has initFailed false.
C26_ResetRecovers ==
    [][/\ step'.op = "ResetIframe" =>
             /\ ~bridge'.initFailed
             /\ bridge'.initError = "null"
             /\ bridge'.iframeState = "idle"
             /\ bridge'.iframeSrc = bridge.url \/ bridge.url \in bridge'.resetTimers
       /\ step'.op = "ResetTimer" =>
             \E u \in bridge.resetTimers : bridge'.iframeSrc = u /\ u \notin bridge'.resetTimers
       /\ bridge.recovery = "reset" /\ step'.op = "IframeLoad" /\ bridge.iframeState = "idle" =>
             bridge'.iframeState = "loading"
       /\ bridge.recovery = "reset" /\ IsAck(step') => bridge'.iframeState = "ready"
       /\ bridge'.recovery = "reset" => ~bridge'.initFailed]_vars

\* A bridge that had failed was reset, its iframe loaded and was sent
\* ui/initialize, and the acknowledgment has just made it ready.
C26_Witness ==
    /\ bridge.recovery = "reset"
    /\ IsAck(step)
    /\ bridge.iframeStateRef = "initializing"
    /\ bridge.iframeState = "ready"
    /\ ~bridge.initFailed

\* ---------------------------------------------------------------- C27
IsPartialCall == step'.op = "notifyToolInputPartial"

ParamsOf(m) == IF "params" \in DOMAIN m THEN m.params ELSE m.body

\* The tool-input-partial notifications of a sequence that carry the data,
\* as they are or with the progress marker added.
PartialsCarrying(msgs, data) ==
    SelectSeq(msgs, LAMBDA m : /\ m.method = ToolInputPartial
                               /\ "arguments" \in DOMAIN ParamsOf(m)
                               /\ ParamsOf(m).arguments \in {data, Spread(data, "_botdojoProgress")})

NewlyQueued ==
    SubSeq(bridge'.pendingNotifications, Len(bridge.pendingNotifications) + 1,
           Len(bridge'.pendingNotifications))

\* C27: every notifyToolInputPartial(data) call with a non-empty object
\* results in exactly one tool-input-partial notification carrying the data,
\* posted to the app or appended to the queue of the bridge.
C27_PartialReachesApp ==
    [][ IsPartialCall =>
          Len(PartialsCarrying(step'.out, step'.msg.data))
            + Len(PartialsCarrying(NewlyQueued, step'.msg.data)) = 1
      ]_vars

\* ---------------------------------------------------------------- C28
IsPartialUpdate ==
    /\ step'.op = "step_update"
    /\ step'.msg.call \in {"notifyToolInputPartial", "notifyToolInput", "notifyToolResult"}

HtmlOf(s) == s.canvas.canvasData.html

\* C28: an argument or result update of notifyToolInputPartial,
\* notifyToolInput or notifyToolResult carries no canvas object, and the
\* step it is merged into keeps the html its canvas had.
C28_PartialKeepsContent ==
    [][ IsPartialUpdate =>
          /\ step'.msg.update.canvas = NoCanvas
          /\ \A id \in StepIds :
                HtmlOf(chat.steps[id]) # Absent =>
                   /\ chat'.steps[id].canvas # NoCanvas
                   /\ HtmlOf(chat'.steps[id]) = HtmlOf(chat.steps[id])
      ]_vars

C28_Witness ==
    /\ step.op = "step_update"
    /\ step.msg.call = "notifyToolInputPartial"
    /\ step.msg.update.stepId = "s1"
    /\ chat.steps["s1"].arguments = "v2"
    /\ HtmlOf(chat.steps["s1"]) = "h1"

\* ---------------------------------------------------------------- C29
Applied == calc.fn \in {"handleGetResource", "extractUriParams"}

ParamsNamed(template) == {paramNames(template)[i] : i \in DOMAIN paramNames(template)}

\* C29: for the template res://file/{path} and the uri res://file/a/b/c.txt
\* the parameter path is a/b/c.txt, and for every uri that matchesUriTemplate
\* accepts, extractUriParams gives every parameter named in the template a
\* non-empty value.
C29_ParamsNonEmpty ==
    Applied =>
       /\ calc.in.template = FileTemplate /\ calc.in.uri = FileUri =>
              calc.out.matches /\ calc.out.params["{path}"] = Group(FilePath)
       /\ calc.out.matches =>
              /\ DOMAIN calc.out.params = ParamsNamed(calc.in.template)
              /\ \A name \in ParamsNamed(calc.in.template) :
                     /\ calc.out.params[name].defined
                     /\ calc.out.params[name].value # <<>>

\* ---------------------------------------------------------------- C30
Extracted == calc.fn = "extractMcpAppData"

\* The first element of a sequence that is in the set good, if there is one.
HasFirst(candidates, good) == \E i \in DOMAIN candidates : candidates[i] \in good
First(candidates, good) ==
    candidates[CHOOSE i \in DOMAIN candidates :
                  /\ candidates[i] \in good
                  /\ \A j \in 1..(i - 1) : candidates[j] \notin good]

NonEmptyArguments == {"obj", "json", "text"}
PresentResults == {"null", "obj", "json", "text", "emptyobj"}

ToolPhaseOf(s) == IF s.stepToolPhase # Undefined THEN s.stepToolPhase ELSE s.toolPhase

ArgumentCandidates(s) ==
    <<s.stepToolArguments, parseMaybeJson(s.arguments), parseMaybeJson(s.cdArguments)>>

ResultCandidates(s) ==
    <<s.stepToolResult, parseMaybeJson(s.cdResult)>>
    \o (IF /\ ToolPhaseOf(s) = "complete"
           /\ s.content \notin {Undefined, "emptystr"}
        THEN <<parseMaybeJson(s.content)>>
        ELSE <<>>)

\* C30: extractMcpAppData returns null for a step without a canvas id;
\* otherwise its arguments are the first non-empty of stepToolArguments,
\* the parsed arguments string and the parsed canvasData.arguments, and its
\* result is the first present of stepToolResult, the parsed
\* canvasData.result and, only when the tool phase is complete and the step
\* has content, the parsed content; with no such candidate the arguments
\* are empty and the result is missing.
C30_FirstOfSources ==
    Extracted =>
       IF ~calc.in.hasCanvas \/ calc.in.canvasId = Undefined
       THEN calc.out = NullData
       ELSE /\ ~calc.out.null
            /\ IF HasFirst(ArgumentCandidates(calc.in), NonEmptyArguments)
               THEN calc.out.arguments = First(ArgumentCandidates(calc.in), NonEmptyArguments)
               ELSE calc.out.arguments \notin NonEmptyArguments
            /\ IF HasFirst(ResultCandidates(calc.in), PresentResults)
               THEN calc.out.result = First(ResultCandidates(calc.in), PresentResults)
               ELSE calc.out.result \notin PresentResults

C30_Witness ==
    /\ Extracted
    /\ calc.in.hasCanvas /\ calc.in.canvasId = "A"
    /\ calc.in.stepToolArguments = "emptyobj" /\ calc.in.arguments = "jsonempty"
    /\ calc.in.cdArguments = "json" /\ calc.out.arguments = "obj"
    /\ calc.in.stepToolResult = "emptystr" /\ calc.in.cdResult = Undefined
    /\ calc.in.toolPhase = "complete" /\ calc.in.content = "text"
    /\ calc.out.result = "text"

\* ---------------------------------------------------------------- C31
InitializesIn(out) ==
    Len(SelectSeq(out, LAMBDA m : m.t = "request" /\ m.method = "ui/initialize"))

SendToolResult ==
    /\ bridge.mounted
    /\ LET params == [arguments |-> Undefined, result |-> "obj"]
       IN Do("SendToolNotification", [method |-> ToolResult, id |-> NoId, params |-> params],
             sendToolNotification(Start, ToolResult, params))

NextContent ==
    \/ \E u \in Urls \cup {NoUrl} : Render(u)
    \/ RenderProps
    \/ IframeLoad
    \/ SendToolResult
    \/ RetryTimer
    \/ InitTimeout
    \/ RecvInitialized(NoId)

InitContent == InitWith({"u1"}, {props \in BridgeProps : props.toolName # Undefined /\ props.isComplete})

SpecContent == InitContent /\ [][NextContent]_vars

NewContentKey ==
    /\ step'.op = "Render"
    /\ bridge'.url # NoUrl
    /\ ContentKey(bridge'.url) # ContentKey(bridge.url)
    /\ ContentKey(bridge'.url) # bridge.renderedContentKeyRef

RetryStateKept ==
    /\ bridge'.initializeAttempts = bridge.initializeAttempts
    /\ bridge'.initializeTimer = bridge.initializeTimer

\* C32: the commit of a new non-empty content key leaves the status idle, the
\* queue of pending notifications empty, no retry timer armed, the attempt
\* counter zero, initFailed clear and the iframe src equal to the new url; a
\* render that changes the other props and not the url keeps the content
\* key, the queue, the iframe src and initFailed, and does not make the
\* status idle.
C32_ContentKeyResets ==
    [][ /\ NewContentKey =>
              /\ bridge'.iframeState = "idle"
              /\ bridge'.pendingNotifications = <<>>
              /\ bridge'.initializeTimer # "armed"
              /\ bridge'.initializeAttempts = 0
              /\ ~bridge'.initFailed
              /\ bridge'.iframeSrc = bridge'.url
        /\ step'.op = "RenderProps" =>
              /\ bridge'.renderedContentKeyRef = bridge.renderedContentKeyRef
              /\ bridge'.pendingNotifications = bridge.pendingNotifications
              /\ bridge'.iframeSrc = bridge.iframeSrc
              /\ bridge'.iframeState = "idle" => bridge.iframeState = "idle"
              /\ bridge.iframeState = bridge.iframeStateRef => RetryStateKept /\ bridge'.initFailed = bridge.initFailed
      ]_vars


UrlBecomesEmpty ==
    /\ step'.op = "Render"
    /\ bridge.url # NoUrl /\ bridge'.url = NoUrl
    /\ bridge.iframeSrc # NoUrl
    /\ bridge.renderedContentKeyRef # ""

SameUrlComesBack ==
    /\ step'.op = "Render"
    /\ bridge.url = NoUrl /\ bridge'.url # NoUrl
    /\ ContentKey(bridge'.url) = bridge.renderedContentKeyRef

\* C33: a render whose url becomes empty while an iframe is rendered, and a
\* later render that brings the rendered url back, do what a render with an
\* unchanged url does: the content key of the iframe, the queue of pending
\* notifications and the iframe src are kept, and so are the status, the
\* attempt counter, the retry timer and initFailed when the render commits
\* no change of status.
C33_EmptyUrlPreserves ==
    [][ UrlBecomesEmpty \/ SameUrlComesBack =>
          /\ bridge' = [RenderCommit(Start, bridge.url).b EXCEPT !.url = bridge'.url]
          /\ bridge'.renderedContentKeyRef = bridge.renderedContentKeyRef
          /\ bridge'.pendingNotifications = bridge.pendingNotifications
          /\ bridge'.iframeSrc = bridge.iframeSrc
          /\ bridge.iframeState = bridge.iframeStateRef =>
                /\ bridge'.iframeState = bridge.iframeState
                /\ RetryStateKept
                /\ bridge'.initFailed = bridge.initFailed
      ]_vars

C33_Witness ==
    /\ step.op = "Render"
    /\ bridge.url = NoUrl
    /\ bridge.iframeSrc = "u1"
    /\ bridge.renderedContentKeyRef = "url:u1"
    /\ bridge.iframeState = "initializing"
    /\ bridge.initializeTimer = "armed"
    /\ bridge.pendingNotifications # <<>>


\* C34: whenever the rendered status is ready, the queue of pending
\* notifications is empty.
C34_ReadyQueueEmpty == Status = "ready" => bridge.pendingNotifications = <<>>


HydrationPosted(out) == SelectSeq(out, IsHydration) # <<>>

\* C35: an initialized notification handled after the hydration data of
\* this initialization has been posted posts no hydration message.
C35_HydrationOnce ==
    [][ IsAck(step') /\ bridge.hydrated => ~HydrationPosted(step'.out) ]_vars


\* ------------------------------------------------------------- unregister
Unregistered == CHOOSE u \in prov.unregisters : u \notin prov'.unregisters

\* C38: calling the unregister function of a registration that a newer
\* registration of the same app id has replaced leaves the newer sender
\* registered.
C38_UnregisterOwnOnly ==
    [][ step'.op = "unregister" /\ prov.senders[Unregistered.app] \notin {0, Unregistered.sender} =>
          prov'.senders[Unregistered.app] = prov.senders[Unregistered.app]
      ]_vars


\* ------------------------------------------------------------ result kept
ResultsNotified(out) == SelectSeq(out, LAMBDA e : e.t = "notify" /\ e.kind = "result")

\* C37: every notifyToolResult of a running tool call hands its step update
\* to the callback of at least one app or appends it to a queue of step
\* updates.
C37_ResultNeverLost ==
    [][ IsNotifying =>
          \A i \in DOMAIN ResultsNotified(step'.out) :
              \E j \in DOMAIN DeliveriesOf(step'.out) :
                  /\ DeliveriesOf(step'.out)[j].call = ResultsNotified(step'.out)[i].call
                  /\ DeliveriesOf(step'.out)[j].kind = "result"
      ]_vars


\* ------------------------------------------------------- step update order
\* Step updates of app A, some of which await their ui:// resource, while
\* the app registers and unregisters its step-update callback.
NextOrder ==
    \/ ServerStepUpdate
    \/ StepUpdateAwaits
    \/ ResourceResolved
    \/ RegisterStepUpdateCallback
    \/ UnregisterStepUpdateCallback

SpecOrder == InitRequests /\ [][NextOrder]_vars

Ascending(ns) == \A i, j \in DOMAIN ns : i < j => ns[i] < ns[j]

ForwardedTo(a) ==
    LET own == SelectSeq(chat.forwarded, LAMBDA f : f.app = a)
    IN  [i \in DOMAIN own |-> own[i].n]

\* C36: the step updates are dispatched to the reducer, and handed to the
\* callback or the queue of their app, in the order in which the provider
\* received them.
C36_InOrderOfReceipt ==
    /\ Ascending(chat.dispatched)
    /\ \A a \in Apps : Ascending(ForwardedTo(a))


\* ------------------------------------------------------------- data cache
\* C39: a field of an app's cache entry that holds a value holds a value
\* after every later step update.
C39_CacheOnlyGrows ==
    [][ \A a \in Apps, f \in CacheFields :
            Given(chat.mcpAppDataCache[a][f]) => Given(chat'.mcpAppDataCache[a][f]) ]_vars


\* ------------------------------------------------------------ SpecHeadless
NextHeadless ==
    \/ MessageStart
    \/ MessageComplete
    \/ ErrorEvent
    \/ RequestAborted
    \/ IdleTimer

SpecHeadless == InitRequests /\ [][NextHeadless]_vars

\* C40: while an assistant message has started and has neither completed,
\* failed nor been aborted, the status HeadlessChat reports is running.
C40_RunningUntilDone ==
    headless.open.role = "assistant" => headless.currentStatus = "running"

====
